---- MODULE Spec2Model ----
(***************************************************************************)
(* A model of handraise: the file-backed prompt bridge                     *)
(* (src/mcp/ask-user-bridge.ts) and the approval gate (src/mcp/gate.ts,    *)
(* src/mcp/policy.ts).                                                     *)
(*                                                                         *)
(* Spec      the prompt bridge: independent processes calling enqueue,     *)
(*           listPending, submitResponse and waitForResponse on one path.  *)
(* GateSpec  the approval gate: concurrent executeWithApproval calls on    *)
(*           one gate, with the adapter and the executor as environment.   *)
(* DocSpec   the bridge's document under whole operations.                 *)
(* HealSpec  the same, from a file that is missing, cut short or of        *)
(*           another version.                                              *)
(* ListSpec  listPending on any version-1 document.                        *)
(* CrashSpec the prompt bridge when a process may die holding the lock.    *)
(* InjectedSpec the gate when its maker supplies the trace id source.      *)
(* PolicySpec   matchPolicy on the policies a gate can be made with.       *)
(* DisplaySpec  prepareArgsForDisplay on small values and limits.          *)
(* HeapSpec     the same walk on values that may contain themselves.       *)
(* ToolSpec     handraise_ask_user calls of the server beside a responder. *)
(* FirstPollSpec  the start of waitForResponse, clock read by clock read.  *)
(* RespondSpec  the responder loop of the CLI, scheduled fairly.           *)
(* FailSpec     the prompt bridge when writing the document may fail.      *)
(***************************************************************************)
EXTENDS Integers, Sequences, FiniteSets, TLC

(***************************************************************************)
(* Bounds of the model.                                                    *)
(***************************************************************************)
\* timeoutMs of a waitForResponse call ranges over 0..MaxTimeoutMs.
MaxTimeoutMs == 0
\* pollIntervalMs of a waitForResponse call ranges over 0..MaxPollMs.
MaxPollMs == 0
\* LOCK_TIMEOUT_MS, in ticks of the model's clock.
LockTimeoutTicks == 1

\* The processes sharing the bridge path (an agent, a second caller, a responder).
Procs == {"a", "b"}
\* Prompt ids callers use.
PromptIds == {"p1", "p2"}
\* AskUserBridgeResponse.action ("cancel" is stored the same way)
ResponseActions == {"accept", "decline"}

VARIABLES
    file,      \* the document at filePath
    tmpFile,   \* the document at filePath + ".tmp"
    lockDir,   \* whether the directory filePath + ".lock" exists
    pc,        \* where each process is in its current call
    op,        \* the call each process is running or ran last
    state,     \* each process's in-memory state inside withStateLock
    before,    \* the file contents each process read at the start of withStateLock
    result,    \* the outcome of each process's call
    waitLeft,  \* deadline - Date.now() of a waitForResponse, -1 once passed
    sleepLeft, \* ms left of the delay(pollIntervalMs) of a waitForResponse
    lockLeft,  \* deadline - Date.now() of a withStateLock still at mkdir, else 0
    history,   \* per-process history of the running wait (read by no action)
    optsPolicy, \* opts.policy of the gate
    gpc,       \* where each executeWithApproval call is
    call,      \* the McpToolCall each executeWithApproval was given
    request,   \* the McpApprovalRequest each call built
    decision,  \* what requestApproval resolved with, for each call
    executed,  \* the calls the executor was invoked with, for each call
    outcome,   \* how each executeWithApproval settled
    asked,     \* the requests given to opts.handraise.requestApproval, in order
    events,    \* what the gate gave to opts.logger, in order
    settled,   \* how the executor's promise settled, for each call
    uuids,     \* what randomUUID has returned, in order
    effects,   \* what each call did to the outside, in program order
    removed,   \* the prompt ids whose response a whole take has consumed
    done,      \* the last whole operation on the document and its result
    matched,   \* the last matchPolicy(policy, toolName) and what it returned
    shown,     \* the last prepareArgsForDisplay(input, opts) and what it returned
    tool       \* each process's handraise_ask_user call or responder loop

bridgeVars == <<file, tmpFile, lockDir, pc, op, state, before, result,
                waitLeft, sleepLeft, lockLeft, history>>

gateVars == <<optsPolicy, gpc, call, request, decision, executed, outcome, asked, events,
              settled, uuids, effects>>

docVars == <<removed, done>>

fnVars == <<matched, shown, tool>>

vars == <<bridgeVars, gateVars, docVars, fnVars>>

(***************************************************************************)
(* Documents.                                                              *)
(***************************************************************************)
emptyState == [version |-> 1, prompts |-> <<>>, responses |-> <<>>]

\* No file at the path (readFile fails with ENOENT).
Missing == [kind |-> "ENOENT", version |-> 1, prompts |-> <<>>, responses |-> <<>>]

\* A file that holds only the beginning of a JSON text, as a writeFile cut
\* short leaves it; JSON.parse throws on it.
Partial == [kind |-> "partial", version |-> 1, prompts |-> <<>>, responses |-> <<>>]

\* JSON.stringify(state) as stored by writeFile.
Stringify(s) ==
    [kind |-> "json", version |-> s.version, prompts |-> s.prompts,
     responses |-> s.responses]

\* A variant of readBridgeState that does not look at the version.
readIgnoringVersion(f) ==
    IF f.kind # "json" THEN emptyState
    ELSE [version |-> 1, prompts |-> f.prompts, responses |-> f.responses]

readBridgeState(f) ==
    IF f.kind # "json" THEN emptyState
    ELSE IF f.version # 1 THEN emptyState
    ELSE [version |-> 1, prompts |-> f.prompts, responses |-> f.responses]

PromptIdsOf(prompts) == {prompts[i].id : i \in DOMAIN prompts}

RespondedIdsOf(responses) == {responses[i].promptId : i \in DOMAIN responses}

listPendingFromState(s) ==
    LET responded == RespondedIdsOf(s.responses)
    IN  SelectSeq(s.prompts, LAMBDA item : item.id \notin responded)

(***************************************************************************)
(* Outcomes of a call: what it returned or threw.                          *)
(***************************************************************************)
ErrOnlyOnePending == "Only one pending askUser prompt is allowed at a time."
ErrTimedOut == "Timed out waiting for CLI response for prompt"
ErrLock == "EEXIST"

NoResult ==
    [status |-> "none", error |-> "", accepted |-> FALSE,
     response |-> <<>>, pending |-> <<>>]

Returned == [NoResult EXCEPT !.status = "return"]

Threw(e) == [NoResult EXCEPT !.status = "throw", !.error = e]

(***************************************************************************)
(* The mutators run inside withStateLock: each maps the state read from    *)
(* the file to the state written back and the value returned (or the       *)
(* error thrown, in which case nothing is written).                        *)
(***************************************************************************)
\* Variants of enqueueAskUserPrompt: without the capacity check; returning
\* instead of throwing when another prompt is pending; counting answered
\* prompts as pending.
enqueueWithoutCapacityCheck(s, prompt) ==
    IF prompt.id \in PromptIdsOf(s.prompts)
    THEN [state |-> s, result |-> Returned]
    ELSE [state |-> [s EXCEPT !.prompts = Append(@, prompt)], result |-> Returned]

enqueueSilentlyWhenFull(s, prompt) ==
    IF prompt.id \in PromptIdsOf(s.prompts) \/ Len(listPendingFromState(s)) >= 1
    THEN [state |-> s, result |-> Returned]
    ELSE [state |-> [s EXCEPT !.prompts = Append(@, prompt)], result |-> Returned]

enqueueCountingAnswered(s, prompt) ==
    IF Len(s.prompts) >= 1 /\ prompt.id \notin PromptIdsOf(s.prompts)
    THEN [state |-> s, result |-> Threw(ErrOnlyOnePending)]
    ELSE IF prompt.id \in PromptIdsOf(s.prompts)
         THEN [state |-> s, result |-> Returned]
         ELSE [state |-> [s EXCEPT !.prompts = Append(@, prompt)],
               result |-> Returned]

enqueueAskUserPrompt(s, prompt) ==
    LET pending == listPendingFromState(s)
    IN  IF Len(pending) >= 1 /\ prompt.id \notin PromptIdsOf(pending)
        THEN [state |-> s, result |-> Threw(ErrOnlyOnePending)]
        ELSE IF prompt.id \in PromptIdsOf(s.prompts)
             THEN [state |-> s, result |-> Returned]
             ELSE [state |-> [s EXCEPT !.prompts = Append(@, prompt)],
                   result |-> Returned]

\* Array.prototype.sort with (a, b) => a.createdAt - b.createdAt: stable, ascending.
RECURSIVE SortByCreatedAt(_)
SortByCreatedAt(q) ==
    IF Len(q) <= 1 THEN q
    ELSE LET front == SortByCreatedAt(SubSeq(q, 1, Len(q) - 1))
             x == q[Len(q)]
             keep == Cardinality({i \in DOMAIN front : front[i].createdAt <= x.createdAt})
         IN  SubSeq(front, 1, keep) \o <<x>> \o SubSeq(front, keep + 1, Len(front))

\* A variant of listPendingAskUserPrompts that returns the prompts in the
\* order the document stores them.
listPendingUnsorted(s) ==
    [state |-> s, result |-> [Returned EXCEPT !.pending = listPendingFromState(s)]]

listPendingAskUserPrompts(s) ==
    [state |-> s,
     result |-> [Returned EXCEPT !.pending = SortByCreatedAt(listPendingFromState(s))]]

\* findIndex: the first index whose response is for promptId, 0 when there is none.
FindResponseIndex(responses, promptId) ==
    IF promptId \in RespondedIdsOf(responses)
    THEN CHOOSE i \in DOMAIN responses :
            /\ responses[i].promptId = promptId
            /\ \A j \in 1..(i - 1) : responses[j].promptId # promptId
    ELSE 0

\* A variant of submitAskUserResponse that stores a prompt for an id it
\* does not find.
submitCreatingPrompt(s, response) ==
    LET existingIndex == FindResponseIndex(s.responses, response.promptId)
        prompts == IF response.promptId \in PromptIdsOf(s.prompts) THEN s.prompts
                   ELSE Append(s.prompts, [id |-> response.promptId, createdAt |-> 1])
    IN  [state |->
           IF existingIndex > 0
           THEN [s EXCEPT !.prompts = prompts, !.responses[existingIndex] = response]
           ELSE [s EXCEPT !.prompts = prompts, !.responses = Append(@, response)],
         result |-> [Returned EXCEPT !.accepted = TRUE]]

\* A variant of submitAskUserResponse that keeps a response already stored.
submitKeepingFirst(s, response) ==
    IF response.promptId \notin PromptIdsOf(s.prompts)
    THEN [state |-> s, result |-> Returned]
    ELSE LET existingIndex == FindResponseIndex(s.responses, response.promptId)
         IN  [state |->
                IF existingIndex > 0 THEN s
                ELSE [s EXCEPT !.responses = Append(@, response)],
              result |-> [Returned EXCEPT !.accepted = TRUE]]

\* A variant of submitAskUserResponse without the check that the prompt exists.
submitWithoutPromptCheck(s, response) ==
    LET existingIndex == FindResponseIndex(s.responses, response.promptId)
    IN  [state |->
           IF existingIndex > 0
           THEN [s EXCEPT !.responses[existingIndex] = response]
           ELSE [s EXCEPT !.responses = Append(@, response)],
         result |-> [Returned EXCEPT !.accepted = TRUE]]

submitAskUserResponse(s, response) ==
    IF response.promptId \notin PromptIdsOf(s.prompts)
    THEN [state |-> s, result |-> Returned]
    ELSE LET existingIndex == FindResponseIndex(s.responses, response.promptId)
         IN  [state |->
                IF existingIndex > 0
                THEN [s EXCEPT !.responses[existingIndex] = response]
                ELSE [s EXCEPT !.responses = Append(@, response)],
              result |-> [Returned EXCEPT !.accepted = TRUE]]

\* Variants of takeAskUserResponse: keeping the prompt when the response is
\* taken; dropping the prompt when there is no response.
takeKeepingPrompt(s, promptId) ==
    LET index == FindResponseIndex(s.responses, promptId)
    IN  IF index = 0
        THEN [state |-> s, result |-> Returned]
        ELSE [state |->
                [s EXCEPT
                    !.responses = SubSeq(@, 1, index - 1) \o SubSeq(@, index + 1, Len(@))],
              result |-> [Returned EXCEPT !.response = <<s.responses[index]>>]]

takeDroppingUnanswered(s, promptId) ==
    LET index == FindResponseIndex(s.responses, promptId)
    IN  IF index = 0
        THEN [state |-> [s EXCEPT !.prompts = SelectSeq(@, LAMBDA item : item.id # promptId)],
              result |-> Returned]
        ELSE [state |->
                [s EXCEPT
                    !.responses = SubSeq(@, 1, index - 1) \o SubSeq(@, index + 1, Len(@)),
                    !.prompts = SelectSeq(@, LAMBDA item : item.id # promptId)],
              result |-> [Returned EXCEPT !.response = <<s.responses[index]>>]]

takeAskUserResponse(s, promptId) ==
    LET index == FindResponseIndex(s.responses, promptId)
    IN  IF index = 0
        THEN [state |-> s, result |-> Returned]
        ELSE [state |->
                [s EXCEPT
                    !.responses = SubSeq(@, 1, index - 1) \o SubSeq(@, index + 1, Len(@)),
                    !.prompts = SelectSeq(@, LAMBDA item : item.id # promptId)],
              result |-> [Returned EXCEPT !.response = <<s.responses[index]>>]]

(***************************************************************************)
(* Calls.                                                                  *)
(***************************************************************************)
\* createdAt values (Date.parse of the prompt's createdAt) callers use.
CreatedAts == {1}

NoPrompt == [id |-> "", createdAt |-> 0]
NoResponse == [promptId |-> "", action |-> ""]

NoOp ==
    [kind |-> "none", prompt |-> NoPrompt, response |-> NoResponse,
     promptId |-> "", pollIntervalMs |-> 0]

NoHistory == [owed |-> FALSE, pendingAtTimeout |-> FALSE]

Max(a, b) == IF a >= b THEN a ELSE b

\* The mutator the running call hands to withStateLock.
Mutator(o, s) ==
    CASE o.kind = "enqueue" -> enqueueAskUserPrompt(s, o.prompt)
      [] o.kind = "list" -> listPendingAskUserPrompts(s)
      [] o.kind = "submit" -> submitAskUserResponse(s, o.response)
      [] o.kind = "wait" -> takeAskUserResponse(s, o.promptId)

\* No call is running and nobody holds the lock.
BridgeIdle ==
    /\ tmpFile = Missing
    /\ lockDir = FALSE
    /\ pc = [p \in Procs |-> "idle"]
    /\ op = [p \in Procs |-> NoOp]
    /\ state = [p \in Procs |-> emptyState]
    /\ before = [p \in Procs |-> Missing]
    /\ result = [p \in Procs |-> NoResult]
    /\ waitLeft = [p \in Procs |-> 0]
    /\ sleepLeft = [p \in Procs |-> 0]
    /\ lockLeft = [p \in Procs |-> 0]
    /\ history = [p \in Procs |-> NoHistory]

BridgeInit == file \in {Missing, Stringify(emptyState)} /\ BridgeIdle

\* No handraise_ask_user call has been made.
NoToolReturn == [action |-> "", answer |-> ""]
NoTool == [phase |-> "none", promptId |-> "", used |-> {}, ret |-> NoToolReturn]
NoTools == [p \in Procs |-> NoTool]

\* A call starts: its arguments are fixed and it enters withStateLock.
StartCallBridge(p, o, first) ==
    /\ pc[p] = "idle"
    /\ pc' = [pc EXCEPT ![p] = first]
    /\ op' = [op EXCEPT ![p] = o]
    /\ result' = [result EXCEPT ![p] = NoResult]
    /\ state' = [state EXCEPT ![p] = emptyState]
    /\ before' = [before EXCEPT ![p] = Missing]
    /\ history' = [history EXCEPT ![p] = NoHistory]
    /\ UNCHANGED <<file, tmpFile, lockDir>>
    /\ lockLeft' = [lockLeft EXCEPT ![p] = IF first = "mkdir" THEN LockTimeoutTicks ELSE 0]

StartCall(p, o, first) ==
    /\ StartCallBridge(p, o, first)
    /\ UNCHANGED <<gateVars, docVars, fnVars>>

CallEnqueue(p) ==
    \E id \in PromptIds, at \in CreatedAts :
        /\ StartCall(p, [NoOp EXCEPT !.kind = "enqueue",
                                     !.prompt = [id |-> id, createdAt |-> at]], "mkdir")
        /\ UNCHANGED <<waitLeft, sleepLeft>>

CallListPending(p) ==
    /\ StartCall(p, [NoOp EXCEPT !.kind = "list"], "mkdir")
    /\ UNCHANGED <<waitLeft, sleepLeft>>

CallSubmit(p) ==
    \E id \in PromptIds, act \in ResponseActions :
        /\ StartCall(p, [NoOp EXCEPT !.kind = "submit",
                                     !.response = [promptId |-> id, action |-> act]],
                     "mkdir")
        /\ UNCHANGED <<waitLeft, sleepLeft>>

\* waitForAskUserResponse: deadline = Date.now() + Math.max(timeoutMs, pollIntervalMs).
CallWait(p) ==
    \E id \in PromptIds, timeoutMs \in 0..MaxTimeoutMs, pollIntervalMs \in 0..MaxPollMs :
        /\ StartCall(p, [NoOp EXCEPT !.kind = "wait", !.promptId = id,
                                     !.pollIntervalMs = pollIntervalMs], "check")
        /\ waitLeft' = [waitLeft EXCEPT ![p] = Max(timeoutMs, pollIntervalMs)]
        /\ UNCHANGED sleepLeft

(***************************************************************************)
(* withStateLock, one step per awaited file-system operation.  lockLeft   *)
(* counts the ticks to the lock deadline (LOCK_TIMEOUT_MS after the call   *)
(* entered withStateLock) while the call is at mkdir.                      *)
(***************************************************************************)
\* A variant of Mkdir that succeeds on an existing directory, as
\* mkdir(lockPath, { recursive: true }) would.
MkdirRecursive(p) ==
    /\ pc[p] = "mkdir"
    /\ lockDir' = TRUE
    /\ pc' = [pc EXCEPT ![p] = "read"]
    /\ UNCHANGED <<file, tmpFile, op, state, before, result, waitLeft, sleepLeft, history>>
    /\ lockLeft' = [lockLeft EXCEPT ![p] = 0]
    /\ UNCHANGED <<gateVars, docVars, fnVars>>

\* mkdir(lockPath) succeeds: the directory did not exist.
Mkdir(p) ==
    /\ pc[p] = "mkdir"
    /\ ~lockDir
    /\ lockDir' = TRUE
    /\ pc' = [pc EXCEPT ![p] = "read"]
    /\ UNCHANGED <<file, tmpFile, op, state, before, result, waitLeft, sleepLeft, history>>
    /\ lockLeft' = [lockLeft EXCEPT ![p] = 0]
    /\ UNCHANGED <<gateVars, docVars, fnVars>>

\* A variant of MkdirRetry that never looks at the deadline.
MkdirRetryForever(p) ==
    /\ pc[p] = "mkdir"
    /\ lockDir
    /\ pc' = [pc EXCEPT ![p] = "mkdir"]
    /\ UNCHANGED <<file, tmpFile, lockDir, op, state, before, result, waitLeft,
                   sleepLeft, history>>
    /\ UNCHANGED <<lockLeft, gateVars, docVars, fnVars>>

\* mkdir fails and Date.now() < deadline: delay(30), then the call is back
\* at mkdir.
MkdirRetry(p) ==
    /\ pc[p] = "mkdir"
    /\ lockDir
    /\ lockLeft[p] > 0
    /\ pc' = [pc EXCEPT ![p] = "mkdir"]
    /\ UNCHANGED <<file, tmpFile, lockDir, op, state, before, result, waitLeft,
                   sleepLeft, history>>
    /\ UNCHANGED <<lockLeft, gateVars, docVars, fnVars>>

\* A variant of MkdirTimeout that takes a lock older than the timeout for
\* stale: it removes the directory and tries again.
MkdirTimeoutBreakingLock(p) ==
    /\ pc[p] = "mkdir"
    /\ lockDir
    /\ lockLeft[p] <= 0
    /\ lockDir' = FALSE
    /\ pc' = [pc EXCEPT ![p] = "mkdir"]
    /\ UNCHANGED <<file, tmpFile, op, state, before, result, waitLeft, sleepLeft,
                   history>>
    /\ UNCHANGED <<lockLeft, gateVars, docVars, fnVars>>

\* mkdir fails and Date.now() >= deadline: the error leaves the call.
MkdirTimeout(p) ==
    /\ pc[p] = "mkdir"
    /\ lockDir
    /\ lockLeft[p] <= 0
    /\ pc' = [pc EXCEPT ![p] = "threw"]
    /\ result' = [result EXCEPT ![p] = Threw(ErrLock)]
    /\ waitLeft' = [waitLeft EXCEPT ![p] = 0]
    /\ UNCHANGED <<file, tmpFile, lockDir, op, state, before, sleepLeft, history>>
    /\ UNCHANGED <<lockLeft, gateVars, docVars, fnVars>>

\* readBridgeState, then the mutator on the state read.  A mutator that
\* throws skips writeBridgeState and goes to the finally block.
ReadAndMutate(p) ==
    /\ pc[p] = "read"
    /\ LET out == Mutator(op[p], readBridgeState(file))
       IN  /\ before' = [before EXCEPT ![p] = file]
           /\ state' = [state EXCEPT ![p] = out.state]
           /\ result' = [result EXCEPT ![p] = out.result]
           /\ pc' = [pc EXCEPT ![p] = IF out.result.status = "throw" THEN "rm" ELSE "write"]
    /\ UNCHANGED <<file, tmpFile, lockDir, op, waitLeft, sleepLeft, history>>
    /\ UNCHANGED <<lockLeft, gateVars, docVars, fnVars>>

\* A variant of WriteTmp that writes the document to filePath itself.
WriteInPlace(p) ==
    /\ pc[p] = "write"
    /\ file' = Stringify(state[p])
    /\ tmpFile' = file'
    /\ pc' = [pc EXCEPT ![p] = "rename"]
    /\ UNCHANGED <<lockDir, op, state, before, result, waitLeft, sleepLeft, history>>
    /\ UNCHANGED <<lockLeft, gateVars, docVars, fnVars>>

\* writeBridgeState: writeFile(tempPath, JSON.stringify(state)).
WriteTmp(p) ==
    /\ pc[p] = "write"
    /\ tmpFile' = Stringify(state[p])
    /\ pc' = [pc EXCEPT ![p] = "rename"]
    /\ UNCHANGED <<file, lockDir, op, state, before, result, waitLeft, sleepLeft, history>>
    /\ UNCHANGED <<lockLeft, gateVars, docVars, fnVars>>

\* The waits still running.
Waiting == {p \in Procs : op[p].kind = "wait" /\ pc[p] \notin {"idle", "threw"}}

\* The waits that are polling for promptId, asleep between two takes, and
\* whose deadline has not passed.
PollingBeforeDeadline(promptId) ==
    {w \in Waiting : op[w].promptId = promptId /\ pc[w] = "sleep" /\ waitLeft[w] >= 0}

\* writeBridgeState: rename(tempPath, filePath).  From here on the other
\* processes see the new document.  history.owed of a wait says that the
\* document holds a response for its prompt that was stored by an accepted
\* submitResponse while the wait was polling (asleep between two takes) and
\* before its deadline.
Rename(p) ==
    /\ pc[p] = "rename"
    /\ file' = tmpFile
    /\ tmpFile' = Missing
    /\ pc' = [pc EXCEPT ![p] = "rm"]
    /\ history' =
         [w \in Procs |->
            [history[w] EXCEPT !.owed =
                /\ w \in Waiting
                /\ op[w].promptId \in RespondedIdsOf(tmpFile.responses)
                /\ \/ @
                   \/ /\ op[p].kind = "submit" /\ result[p].accepted
                      /\ w \in PollingBeforeDeadline(op[p].response.promptId)]]
    /\ UNCHANGED <<lockDir, op, state, before, result, waitLeft, sleepLeft>>
    /\ UNCHANGED <<lockLeft, gateVars, docVars, fnVars>>

\* The call is over: its process is free for the next call.
FinishedBridge(p) ==
    /\ pc' = [pc EXCEPT ![p] = "idle"]
    /\ op' = [op EXCEPT ![p] = NoOp]
    /\ result' = [result EXCEPT ![p] = NoResult]
    /\ state' = [state EXCEPT ![p] = emptyState]
    /\ before' = [before EXCEPT ![p] = Missing]
    /\ history' = [history EXCEPT ![p] = NoHistory]
    /\ waitLeft' = [waitLeft EXCEPT ![p] = 0]
    /\ sleepLeft' = [sleepLeft EXCEPT ![p] = 0]
    /\ lockLeft' = [lockLeft EXCEPT ![p] = 0]

Finished(p) ==
    /\ FinishedBridge(p)
    /\ UNCHANGED <<gateVars, docVars, fnVars>>

\* The take of a waitForAskUserResponse returned undefined: the loop goes on.
\* An error thrown inside withStateLock leaves the loop.
TookNothing(p) ==
    op[p].kind = "wait" /\ result[p].status # "throw" /\ result[p].response = <<>>

\* finally: rm(lockPath); then withStateLock returns the mutator's result
\* or rethrows its error, which ends enqueue, listPending and submitResponse,
\* and a waitForResponse whose take found a response.
RmAndReturn(p) ==
    /\ pc[p] = "rm"
    /\ ~(TookNothing(p))
    /\ lockDir' = FALSE
    /\ Finished(p)
    /\ UNCHANGED <<file, tmpFile>>

\* finally: rm(lockPath); the take found nothing: delay(pollIntervalMs).
RmAndSleep(p) ==
    /\ pc[p] = "rm"
    /\ TookNothing(p)
    /\ lockDir' = FALSE
    /\ pc' = [pc EXCEPT ![p] = "sleep"]
    /\ sleepLeft' = [sleepLeft EXCEPT ![p] = op[p].pollIntervalMs]
    /\ state' = [state EXCEPT ![p] = emptyState]
    /\ before' = [before EXCEPT ![p] = Missing]
    /\ result' = [result EXCEPT ![p] = NoResult]
    /\ UNCHANGED <<file, tmpFile, op, waitLeft, history>>
    /\ UNCHANGED <<lockLeft, gateVars, docVars, fnVars>>

\* An error thrown outside the critical section (lock or wait timeout) has
\* reached the caller.
Rethrown(p) ==
    /\ pc[p] = "threw"
    /\ Finished(p)
    /\ UNCHANGED <<file, tmpFile, lockDir>>

(***************************************************************************)
(* The loop of waitForAskUserResponse.                                     *)
(***************************************************************************)
\* Date.now() <= deadline
BeforeDeadline(left) == left >= 0

\* while (Date.now() <= deadline): one more takeAskUserResponse.
WaitPollBridge(p) ==
    /\ pc[p] = "check"
    /\ BeforeDeadline(waitLeft[p])
    /\ pc' = [pc EXCEPT ![p] = "mkdir"]
    /\ UNCHANGED <<file, tmpFile, lockDir, op, state, before, result, waitLeft,
                   sleepLeft, history>>
    /\ lockLeft' = [lockLeft EXCEPT ![p] = LockTimeoutTicks]

WaitPoll(p) ==
    /\ WaitPollBridge(p)
    /\ UNCHANGED <<gateVars, docVars, fnVars>>

\* The loop ends: throw the timeout error.  history notes whether the
\* prompt was pending at that moment.
WaitTimeout(p) ==
    /\ pc[p] = "check"
    /\ ~BeforeDeadline(waitLeft[p])
    /\ pc' = [pc EXCEPT ![p] = "threw"]
    /\ result' = [result EXCEPT ![p] = Threw(ErrTimedOut)]
    /\ history' = [history EXCEPT ![p].pendingAtTimeout =
            op[p].promptId \in PromptIdsOf(listPendingFromState(readBridgeState(file)))]
    /\ UNCHANGED <<file, tmpFile, lockDir, op, state, before, waitLeft, sleepLeft>>
    /\ UNCHANGED <<lockLeft, gateVars, docVars, fnVars>>

\* delay(pollIntervalMs) is over.
WaitWake(p) ==
    /\ pc[p] = "sleep"
    /\ sleepLeft[p] = 0
    /\ pc' = [pc EXCEPT ![p] = "check"]
    /\ UNCHANGED <<file, tmpFile, lockDir, op, state, before, result, waitLeft,
                   sleepLeft, history>>
    /\ UNCHANGED <<lockLeft, gateVars, docVars, fnVars>>

\* One millisecond passes.
Tick ==
    /\ \/ \E p \in Waiting : waitLeft[p] >= 0 \/ sleepLeft[p] > 0
       \/ \E p \in Procs : pc[p] = "mkdir" /\ lockLeft[p] > 0
    /\ waitLeft' = [p \in Procs |->
                      IF p \in Waiting THEN Max(waitLeft[p] - 1, -1) ELSE waitLeft[p]]
    /\ sleepLeft' = [p \in Procs |-> Max(sleepLeft[p] - 1, 0)]
    /\ UNCHANGED <<file, tmpFile, lockDir, pc, op, state, before, result, history>>
    /\ lockLeft' = [p \in Procs |-> IF pc[p] = "mkdir" THEN Max(lockLeft[p] - 1, 0) ELSE lockLeft[p]]
    /\ UNCHANGED <<gateVars, docVars, fnVars>>

(***************************************************************************)
(* Crashes.  A process that dies between mkdir(lockPath) and rm(lockPath)  *)
(* runs no finally block: the lock directory stays.  Nothing in the bridge *)
(* removes another process's lock; somebody outside may.                   *)
(***************************************************************************)
Section == {"read", "write", "rename", "rm"}

\* The dead processes whose lock directory is still there.
Crashed == {p \in Procs : pc[p] = "crashed"}

\* The process dies before its next step and its memory with it.  A
\* writeFile(tempPath) cut short leaves a partial temp file; rename either
\* happened or did not.
Crash(p) ==
    /\ pc[p] \in Section
    /\ pc' = [pc EXCEPT ![p] = "crashed"]
    /\ tmpFile' \in IF pc[p] = "write" THEN {tmpFile, Partial} ELSE {tmpFile}
    /\ op' = [op EXCEPT ![p] = NoOp]
    /\ state' = [state EXCEPT ![p] = emptyState]
    /\ before' = [before EXCEPT ![p] = Missing]
    /\ result' = [result EXCEPT ![p] = NoResult]
    /\ waitLeft' = [waitLeft EXCEPT ![p] = 0]
    /\ sleepLeft' = [sleepLeft EXCEPT ![p] = 0]
    /\ history' = [history EXCEPT ![p] = NoHistory]
    /\ UNCHANGED <<file, lockDir>>
    /\ UNCHANGED <<lockLeft, gateVars, docVars, fnVars>>

\* Somebody removes the lock directory a dead process left behind.
ExternalRmLock ==
    /\ lockDir
    /\ Crashed # {}
    /\ lockDir' = FALSE
    /\ pc' = [p \in Procs |-> IF p \in Crashed THEN "gone" ELSE pc[p]]
    /\ UNCHANGED <<file, tmpFile, op, state, before, result, waitLeft, sleepLeft,
                   history>>
    /\ UNCHANGED <<lockLeft, gateVars, docVars, fnVars>>

(***************************************************************************)
(* Write failures.  mkdir(dirname), writeFile(tempPath) or rename of       *)
(* writeBridgeState rejects (disk full, no permission): the error goes     *)
(* through the finally block of withStateLock to the caller.               *)
(***************************************************************************)
ErrWrite == "ENOSPC"

\* A variant of WriteFails without the finally block: the error leaves
\* withStateLock at once.
WriteFailsWithoutFinally(p) ==
    /\ pc[p] = "write"
    /\ tmpFile' \in {tmpFile, Partial}
    /\ pc' = [pc EXCEPT ![p] = "threw"]
    /\ result' = [result EXCEPT ![p] = Threw(ErrWrite)]
    /\ UNCHANGED <<file, lockDir, op, state, before, waitLeft, sleepLeft, history>>
    /\ UNCHANGED <<lockLeft, gateVars, docVars, fnVars>>

\* mkdir(dirname(filePath)) or writeFile(tempPath) rejects: the temp file
\* is as it was or holds part of the document; filePath is untouched.
WriteFails(p) ==
    /\ pc[p] = "write"
    /\ tmpFile' \in {tmpFile, Partial}
    /\ pc' = [pc EXCEPT ![p] = "rm"]
    /\ result' = [result EXCEPT ![p] = Threw(ErrWrite)]
    /\ UNCHANGED <<file, lockDir, op, state, before, waitLeft, sleepLeft, history>>
    /\ UNCHANGED <<lockLeft, gateVars, docVars, fnVars>>

\* rename(tempPath, filePath) rejects: both files stay as they are.
RenameFails(p) ==
    /\ pc[p] = "rename"
    /\ pc' = [pc EXCEPT ![p] = "rm"]
    /\ result' = [result EXCEPT ![p] = Threw(ErrWrite)]
    /\ UNCHANGED <<file, tmpFile, lockDir, op, state, before, waitLeft, sleepLeft,
                   history>>
    /\ UNCHANGED <<lockLeft, gateVars, docVars, fnVars>>

(***************************************************************************)
(* The document under whole operations.  withStateLock lets one read,      *)
(* mutate, write sequence run at a time, so the document moves as if each  *)
(* operation (for waitForResponse: each poll) were a single step.  DocSpec *)
(* takes these steps and remembers which ids have been consumed.           *)
(***************************************************************************)
NoDone == [op |-> NoOp, result |-> NoResult, before |-> Missing]

DocIdle == removed = {} /\ done = NoDone

\* One withStateLock(filePath, mutator) from mkdir to rm: a mutator that
\* throws leaves the file as it is.
Whole(o) ==
    LET out == Mutator(o, readBridgeState(file))
    IN  /\ file' = IF out.result.status = "throw" THEN file ELSE Stringify(out.state)
        /\ done' = [op |-> o, result |-> out.result, before |-> file]
        /\ removed' = IF o.kind = "wait" /\ out.result.response # <<>>
                      THEN removed \cup {o.promptId} ELSE removed
        /\ UNCHANGED <<tmpFile, lockDir, pc, op, state, before, result, waitLeft,
                       sleepLeft, lockLeft, history>>
        /\ UNCHANGED <<gateVars, fnVars>>

WholeEnqueue ==
    \E id \in PromptIds, at \in CreatedAts :
        Whole([NoOp EXCEPT !.kind = "enqueue", !.prompt = [id |-> id, createdAt |-> at]])

WholeListPending == Whole([NoOp EXCEPT !.kind = "list"])

WholeSubmit ==
    \E id \in PromptIds, act \in ResponseActions :
        Whole([NoOp EXCEPT !.kind = "submit",
                           !.response = [promptId |-> id, action |-> act]])

\* One poll of waitForAskUserResponse.
WholeTake ==
    \E id \in PromptIds : Whole([NoOp EXCEPT !.kind = "wait", !.promptId = id])

DocNext == WholeEnqueue \/ WholeListPending \/ WholeSubmit \/ WholeTake

(***************************************************************************)
(* Argument values (McpToolArgs = unknown) and their display form          *)
(* (redaction.ts).  A value is a tagged record: a string is the sequence   *)
(* of its characters, an array the sequence of its items, an object the    *)
(* sequence of its keys (in enumeration order) with the values beside.     *)
(***************************************************************************)
Scalar(tag, chars) == [t |-> tag, s |-> chars, keys |-> <<>>, items |-> <<>>]
Str(chars) == Scalar("str", chars)
Bool(b) == Scalar("bool", <<b>>)
Null == Scalar("null", <<>>)
Undefined == Scalar("undefined", <<>>)
Arr(items) == [t |-> "arr", s |-> <<>>, keys |-> <<>>, items |-> items]
Obj(keys, items) == [t |-> "obj", s |-> <<>>, keys |-> keys, items |-> items]

DEFAULT_REPLACEMENT == <<"[REDACTED]">>

RedactKey(key) == [kind |-> "redactKey", key |-> key, replacement |-> <<>>]

\* ArgDisplayOptions.  undef names the limits whose value is undefined
\* instead of a number (the type does not allow it; a merge can produce it).
defaultArgDisplayOptions ==
    [maxDepth |-> 4, maxStringLen |-> 500, maxArrayLen |-> 50, maxObjectKeys |-> 50,
     rules |-> <<RedactKey("apiKey"), RedactKey("token"), RedactKey("password")>>,
     undef |-> {}]

truncateString(chars, maxLen) ==
    IF Len(chars) <= maxLen THEN chars
    ELSE SubSeq(chars, 1, maxLen) \o <<"...[TRUNCATED]">>

\* truncateString(value, undefined): value.length <= undefined is false and
\* value.slice(0, undefined) is all of value.
truncateStringUndefined(chars) == chars \o <<"...[TRUNCATED]">>

\* A variant of applyKeyRedactions that looks at the first rule only.
applyFirstRuleOnly(key, rules) ==
    IF rules = <<>> THEN <<>>
    ELSE IF Head(rules).kind # "redactKey" \/ key # Head(rules).key THEN <<>>
         ELSE IF Head(rules).replacement # <<>>
              THEN <<Str(Head(rules).replacement)>>
              ELSE <<Str(DEFAULT_REPLACEMENT)>>

\* The replacement of the first redactKey rule for key, <<>> when no rule matches.
RECURSIVE applyKeyRedactions(_, _)
applyKeyRedactions(key, rules) ==
    IF rules = <<>> THEN <<>>
    ELSE IF Head(rules).kind # "redactKey" \/ key # Head(rules).key
         THEN applyKeyRedactions(key, Tail(rules))
         ELSE IF Head(rules).replacement # <<>>
              THEN <<Str(Head(rules).replacement)>>
              ELSE <<Str(DEFAULT_REPLACEMENT)>>

Min(a, b) == IF a <= b THEN a ELSE b

\* A variant of walk that cuts at depth maxDepth already.
RECURSIVE walkCuttingAtMaxDepth(_, _, _)
walkCuttingAtMaxDepth(value, opts, depth) ==
    IF "maxDepth" \notin opts.undef /\ depth >= opts.maxDepth
    THEN Str(<<"[TRUNCATED_DEPTH]">>)
    ELSE CASE value.t = "str" ->
                Str(IF "maxStringLen" \in opts.undef THEN truncateStringUndefined(value.s)
                    ELSE truncateString(value.s, opts.maxStringLen))
           [] value.t \in {"num", "bool", "null"} -> value
           [] value.t = "arr" ->
                LET n == IF "maxArrayLen" \in opts.undef THEN Len(value.items)
                         ELSE Min(Len(value.items), opts.maxArrayLen)
                    mapped == [i \in 1..n |-> walkCuttingAtMaxDepth(value.items[i], opts, depth + 1)]
                IN  Arr(IF Len(value.items) > n
                        THEN Append(mapped, Str(<<"[TRUNCATED_ARRAY]">>))
                        ELSE mapped)
           [] value.t = "obj" ->
                LET n == IF "maxObjectKeys" \in opts.undef THEN Len(value.keys)
                         ELSE Min(Len(value.keys), opts.maxObjectKeys)
                    out == Obj(SubSeq(value.keys, 1, n),
                               [i \in 1..n |->
                                  LET redacted == applyKeyRedactions(value.keys[i], opts.rules)
                                  IN  IF redacted # <<>> THEN redacted[1]
                                      ELSE walkCuttingAtMaxDepth(value.items[i], opts, depth + 1)])
                IN  IF Len(value.keys) <= n THEN out
                    ELSE IF \E i \in 1..n : value.keys[i] = "__truncated__"
                         THEN Obj(out.keys,
                                  [i \in 1..n |-> IF out.keys[i] = "__truncated__"
                                                  THEN Bool("true") ELSE out.items[i]])
                         ELSE Obj(Append(out.keys, "__truncated__"),
                                  Append(out.items, Bool("true")))
           [] OTHER -> Str(<<"[UNSERIALIZABLE]">>)

RECURSIVE walk(_, _, _)
walk(value, opts, depth) ==
    IF "maxDepth" \notin opts.undef /\ depth > opts.maxDepth
    THEN Str(<<"[TRUNCATED_DEPTH]">>)
    ELSE CASE value.t = "str" ->
                Str(IF "maxStringLen" \in opts.undef THEN truncateStringUndefined(value.s)
                    ELSE truncateString(value.s, opts.maxStringLen))
           [] value.t \in {"num", "bool", "null"} -> value
           [] value.t = "arr" ->
                LET n == IF "maxArrayLen" \in opts.undef THEN Len(value.items)
                         ELSE Min(Len(value.items), opts.maxArrayLen)
                    mapped == [i \in 1..n |-> walk(value.items[i], opts, depth + 1)]
                IN  Arr(IF Len(value.items) > n
                        THEN Append(mapped, Str(<<"[TRUNCATED_ARRAY]">>))
                        ELSE mapped)
           [] value.t = "obj" ->
                LET n == IF "maxObjectKeys" \in opts.undef THEN Len(value.keys)
                         ELSE Min(Len(value.keys), opts.maxObjectKeys)
                    out == Obj(SubSeq(value.keys, 1, n),
                               [i \in 1..n |->
                                  LET redacted == applyKeyRedactions(value.keys[i], opts.rules)
                                  IN  IF redacted # <<>> THEN redacted[1]
                                      ELSE walk(value.items[i], opts, depth + 1)])
                IN  IF Len(value.keys) <= n THEN out
                    ELSE IF \E i \in 1..n : value.keys[i] = "__truncated__"
                         THEN Obj(out.keys,
                                  [i \in 1..n |-> IF out.keys[i] = "__truncated__"
                                                  THEN Bool("true") ELSE out.items[i]])
                         ELSE Obj(Append(out.keys, "__truncated__"),
                                  Append(out.items, Bool("true")))
           [] OTHER -> Str(<<"[UNSERIALIZABLE]">>)

prepareArgsForDisplay(input, opts) == walk(input, opts, 0)

(***************************************************************************)
(* The approval policy (policy.ts).  An optional field that is not set is  *)
(* "unset"; a rule's argDisplay lists the properties it has in `fields`    *)
(* and, of these, the ones whose value is undefined in `undef`.            *)
(***************************************************************************)
NoArgDisplay ==
    [fields |-> {}, undef |-> {}, maxDepth |-> 0, maxStringLen |-> 0, maxArrayLen |-> 0,
     maxObjectKeys |-> 0, rules |-> <<>>]

Limits == {"maxDepth", "maxStringLen", "maxArrayLen", "maxObjectKeys"}

\* { ...base, ...override, rules: override.rules ?? base.rules }: the spread
\* copies every property override has, one whose value is undefined too.
mergeArgDisplayOptions(base, override) ==
    [maxDepth |-> IF "maxDepth" \in override.fields
                  THEN override.maxDepth ELSE base.maxDepth,
     maxStringLen |-> IF "maxStringLen" \in override.fields
                      THEN override.maxStringLen ELSE base.maxStringLen,
     maxArrayLen |-> IF "maxArrayLen" \in override.fields
                     THEN override.maxArrayLen ELSE base.maxArrayLen,
     maxObjectKeys |-> IF "maxObjectKeys" \in override.fields
                       THEN override.maxObjectKeys ELSE base.maxObjectKeys,
     rules |-> IF "rules" \in override.fields \ override.undef
               THEN override.rules ELSE base.rules,
     undef |-> (base.undef \ override.fields) \cup (override.undef \cap Limits)]

\* policy.tools?.findLast(...): a variant of FindRule that takes the last
\* rule naming the tool.
RECURSIVE FindLastRule(_, _)
FindLastRule(tools, toolName) ==
    IF tools = <<>> THEN <<>>
    ELSE IF FindLastRule(Tail(tools), toolName) # <<>>
         THEN FindLastRule(Tail(tools), toolName)
         ELSE IF Head(tools).toolName = toolName THEN <<Head(tools)>> ELSE <<>>

\* policy.tools?.find((t) => t.toolName === toolName): <<rule>>, or <<>>.
RECURSIVE FindRule(_, _)
FindRule(tools, toolName) ==
    IF tools = <<>> THEN <<>>
    ELSE IF Head(tools).toolName = toolName THEN <<Head(tools)>>
         ELSE FindRule(Tail(tools), toolName)

\* A variant of matchPolicy that looks at the denylist first.
matchPolicyDenylistFirst(policy, toolName) ==
    IF toolName \in policy.denylist
    THEN [requireApproval |-> TRUE, risk |-> "high",
          argDisplay |-> defaultArgDisplayOptions]
    ELSE IF toolName \in policy.allowlist
    THEN [requireApproval |-> FALSE, risk |-> "low",
          argDisplay |-> defaultArgDisplayOptions]
    ELSE LET rule == FindRule(policy.tools, toolName)
             requireApproval ==
                 IF rule # <<>> /\ rule[1].requireApproval # "unset"
                 THEN rule[1].requireApproval = "true"
                 ELSE policy.defaultRequireApproval
             risk ==
                 IF rule # <<>> /\ rule[1].risk # "unset" THEN rule[1].risk
                 ELSE IF requireApproval THEN "medium" ELSE "low"
         IN  [requireApproval |-> requireApproval, risk |-> risk,
              argDisplay |->
                  IF rule = <<>> THEN defaultArgDisplayOptions
                  ELSE mergeArgDisplayOptions(defaultArgDisplayOptions,
                                              rule[1].argDisplay)]

\* A variant of matchPolicy for which a per-tool rule goes before the
\* denylist.
matchPolicyRuleBeforeDenylist(policy, toolName) ==
    IF toolName \in policy.allowlist
    THEN [requireApproval |-> FALSE, risk |-> "low",
          argDisplay |-> defaultArgDisplayOptions]
    ELSE IF toolName \in policy.denylist /\ FindRule(policy.tools, toolName) = <<>>
    THEN [requireApproval |-> TRUE, risk |-> "high",
          argDisplay |-> defaultArgDisplayOptions]
    ELSE LET rule == FindRule(policy.tools, toolName)
             requireApproval ==
                 IF rule # <<>> /\ rule[1].requireApproval # "unset"
                 THEN rule[1].requireApproval = "true"
                 ELSE policy.defaultRequireApproval
             risk ==
                 IF rule # <<>> /\ rule[1].risk # "unset" THEN rule[1].risk
                 ELSE IF requireApproval THEN "medium" ELSE "low"
         IN  [requireApproval |-> requireApproval, risk |-> risk,
              argDisplay |->
                  IF rule = <<>> THEN defaultArgDisplayOptions
                  ELSE mergeArgDisplayOptions(defaultArgDisplayOptions,
                                              rule[1].argDisplay)]

matchPolicy(policy, toolName) ==
    IF toolName \in policy.allowlist
    THEN [requireApproval |-> FALSE, risk |-> "low",
          argDisplay |-> defaultArgDisplayOptions]
    ELSE IF toolName \in policy.denylist
    THEN [requireApproval |-> TRUE, risk |-> "high",
          argDisplay |-> defaultArgDisplayOptions]
    ELSE LET rule == FindRule(policy.tools, toolName)
             requireApproval ==
                 IF rule # <<>> /\ rule[1].requireApproval # "unset"
                 THEN rule[1].requireApproval = "true"
                 ELSE policy.defaultRequireApproval
             risk ==
                 IF rule # <<>> /\ rule[1].risk # "unset" THEN rule[1].risk
                 ELSE IF requireApproval THEN "medium" ELSE "low"
         IN  [requireApproval |-> requireApproval, risk |-> risk,
              argDisplay |->
                  IF rule = <<>> THEN defaultArgDisplayOptions
                  ELSE mergeArgDisplayOptions(defaultArgDisplayOptions,
                                              rule[1].argDisplay)]

\* Nothing has been matched, nothing has been prepared for display.
NoMatched == [toolName |-> "", match |-> <<>>]
NoShown == [input |-> Undefined, opts |-> defaultArgDisplayOptions, output |-> <<>>]

FnIdle == matched = NoMatched /\ shown = NoShown /\ tool = NoTools

\* matchPolicy(opts.policy, toolName) is evaluated.
Match(toolName) ==
    /\ matched' = [toolName |-> toolName, match |-> <<matchPolicy(optsPolicy, toolName)>>]
    /\ UNCHANGED <<bridgeVars, gateVars, docVars, shown, tool>>

(***************************************************************************)
(* The approval gate (gate.ts): createMcpHumanInLoopGate(opts) and the     *)
(* executeWithApproval calls made on it.  randomUUID yields a fresh id at  *)
(* every call: the n-th id is n.  opts.nowMs may return any of NowValues.  *)
(***************************************************************************)
\* nowMs() ranges over 0..MaxNowMs.
MaxNowMs == 0
NowValues == 0..MaxNowMs

\* The executeWithApproval calls that can be in flight.
Calls == {"c1", "c2"}
ToolNames == {"readFile", "writeFile", "deleteFile"}
\* call.args
ArgValues ==
    {Obj(<<"path", "token">>, <<Str(<<"a", "b">>), Str(<<"s">>)>>),
     Obj(<<"path">>, <<Str(<<"c">>)>>)}
\* What the executor's promise resolves with.
ExecutorResults == {"r1", "r2"}

ToolRule(toolName, requireApproval, risk, argDisplay) ==
    [toolName |-> toolName, requireApproval |-> requireApproval, risk |-> risk,
     argDisplay |-> argDisplay]

defaultMcpApprovalPolicy ==
    [defaultRequireApproval |-> TRUE, allowlist |-> {}, denylist |-> {}, tools |-> <<>>]

\* opts.policy
Policies ==
    {[defaultMcpApprovalPolicy EXCEPT !.allowlist = {"readFile"}],
     [defaultRequireApproval |-> FALSE, allowlist |-> {}, denylist |-> {"deleteFile"},
      tools |-> <<ToolRule("writeFile", "true", "high",
                           [NoArgDisplay EXCEPT !.fields = {"maxStringLen"},
                                                !.maxStringLen = 1])>>],
     [defaultRequireApproval |-> FALSE, allowlist |-> {"readFile"},
      denylist |-> {"readFile", "deleteFile"},
      tools |-> <<ToolRule("writeFile", "unset", "unset", NoArgDisplay),
                  ToolRule("deleteFile", "false", "low", NoArgDisplay)>>]}

NoCall == [toolName |-> "", args |-> Undefined]
NoRequest ==
    [traceId |-> 0, toolName |-> "", summary |-> <<>>, risk |-> "",
     displayArgs |-> Undefined, createdAtMs |-> 0]
NoError == [name |-> "", traceId |-> 0, toolName |-> "", reason |-> <<>>]
NoOutcome == [status |-> "pending", value |-> "", error |-> NoError]
NoDecision == [shape |-> "none", decision |-> "", overrideArgs |-> <<>>, reason |-> <<>>]

\* McpApprovalDecision.  overrideArgs and reason are <<>> when the property
\* is not there and <<v>> when it is there with value v.
Approve(overrideArgs) == [NoDecision EXCEPT !.shape = "object", !.decision = "approve",
                                            !.overrideArgs = overrideArgs]
Deny(reason) == [NoDecision EXCEPT !.shape = "object", !.decision = "deny",
                                   !.reason = reason]
ApproveDecisions ==
    {Approve(<<>>)} \cup {Approve(<<v>>) : v \in ArgValues \cup {Null, Undefined}}
DenyDecisions == {Deny(<<>>), Deny(<<"no">>)}
\* What an adapter can also resolve with: another tag, no tag, no object
\* (null or undefined; a primitive such as a string).
OtherDecisions ==
    {[NoDecision EXCEPT !.shape = "object", !.decision = "maybe"],
     [NoDecision EXCEPT !.shape = "object"],
     [NoDecision EXCEPT !.shape = "null"],
     [NoDecision EXCEPT !.shape = "primitive"]}

\* A variant of McpHumanApprovalDeniedError that loses the reason.
DeniedErrorWithoutReason(traceId, toolName, reason) ==
    [name |-> "McpHumanApprovalDeniedError", traceId |-> traceId, toolName |-> toolName,
     reason |-> <<>>]

McpHumanApprovalDeniedError(traceId, toolName, reason) ==
    [name |-> "McpHumanApprovalDeniedError", traceId |-> traceId, toolName |-> toolName,
     reason |-> reason]
McpHumanApprovalInvalidDecisionError ==
    [NoError EXCEPT !.name = "McpHumanApprovalInvalidDecisionError"]
TypeError == [NoError EXCEPT !.name = "TypeError"]
ExecutorError == [NoError EXCEPT !.name = "ExecutorError"]
AdapterError == [NoError EXCEPT !.name = "AdapterError"]

Resolved(value) == [NoOutcome EXCEPT !.status = "returned", !.value = value]
Rejected(error) == [NoOutcome EXCEPT !.status = "threw", !.error = error]

summarize(c) == <<"Run MCP tool", c.toolName>>

LogEvent(level, event, traceId, toolName, risk, reason) ==
    [level |-> level, event |-> event, traceId |-> traceId, toolName |-> toolName,
     risk |-> risk, reason |-> reason]

\* a ?? b
Nullish(v) == v.t \in {"null", "undefined"}
Coalesce(a, b) == IF a = <<>> \/ Nullish(a[1]) THEN b ELSE a[1]

\* A variant of assertValidDecision that throws on nothing.
assertNothing(d) == "ok"

\* assertValidDecision: "ok", or the name of what it throws.  Reading .decision of null or undefined throws a TypeError; of a primitive
\* it gives undefined.
assertValidDecision(d) ==
    IF d.shape = "null" THEN "TypeError"
    ELSE IF d.decision = "approve" THEN "ok"
    ELSE IF d.decision = "deny" THEN "ok"
    ELSE "McpHumanApprovalInvalidDecisionError"

GateCallsInit ==
    /\ gpc = [c \in Calls |-> "idle"]
    /\ call = [c \in Calls |-> NoCall]
    /\ request = [c \in Calls |-> NoRequest]
    /\ decision = [c \in Calls |-> NoDecision]
    /\ executed = [c \in Calls |-> <<>>]
    /\ outcome = [c \in Calls |-> NoOutcome]
    /\ asked = [c \in Calls |-> <<>>]
    /\ events = [c \in Calls |-> <<>>]
    /\ settled = [c \in Calls |-> NoOutcome]
    /\ uuids = <<>>
    /\ effects = [c \in Calls |-> <<>>]

(***************************************************************************)
(* executeWithApproval(call, executor), one step per stretch of code       *)
(* between two awaits.                                                     *)
(***************************************************************************)
\* A variant of the bypass path that logs the call.
InvokeBypassLogged(c) ==
    /\ gpc[c] = "idle"
    /\ \E toolName \in ToolNames, args \in ArgValues :
         LET cl == [toolName |-> toolName, args |-> args]
             match == matchPolicy(optsPolicy, cl.toolName)
         IN  /\ ~match.requireApproval
             /\ call' = [call EXCEPT ![c] = cl]
             /\ executed' = [executed EXCEPT ![c] = Append(@, cl)]
             /\ events' = [events EXCEPT ![c] =
                    Append(@, LogEvent("info", "mcp_tool_bypassed", 0, cl.toolName,
                                       match.risk, <<>>))]
             /\ gpc' = [gpc EXCEPT ![c] = "executing"]
    /\ UNCHANGED <<optsPolicy, request, decision, outcome, asked, settled, uuids>>
    /\ effects' = [effects EXCEPT ![c] = @ \o <<"logger", "executor">>]
    /\ UNCHANGED <<bridgeVars, docVars, fnVars>>

\* if (!match.requireApproval) return executor(call)
InvokeBypass(c) ==
    /\ gpc[c] = "idle"
    /\ \E toolName \in ToolNames, args \in ArgValues :
         LET cl == [toolName |-> toolName, args |-> args]
             match == matchPolicy(optsPolicy, cl.toolName)
         IN  /\ ~match.requireApproval
             /\ call' = [call EXCEPT ![c] = cl]
             /\ executed' = [executed EXCEPT ![c] = Append(@, cl)]
             /\ gpc' = [gpc EXCEPT ![c] = "executing"]
    /\ UNCHANGED <<optsPolicy, request, decision, outcome, asked, events, settled, uuids>>
    /\ effects' = [effects EXCEPT ![c] = @ \o <<"executor">>]
    /\ UNCHANGED <<bridgeVars, docVars, fnVars>>

\* randomUUID() returned traceId: the request is built, logged and given to
\* opts.handraise.requestApproval; the call is suspended at the await.
GatedWith(c, traceId) ==
    /\ gpc[c] = "idle"
    /\ \E toolName \in ToolNames, args \in ArgValues, now \in NowValues :
         LET cl == [toolName |-> toolName, args |-> args]
             match == matchPolicy(optsPolicy, cl.toolName)
             req == [traceId |-> traceId, toolName |-> cl.toolName,
                     summary |-> summarize(cl), risk |-> match.risk,
                     displayArgs |-> prepareArgsForDisplay(cl.args, match.argDisplay),
                     createdAtMs |-> now]
         IN  /\ match.requireApproval
             /\ call' = [call EXCEPT ![c] = cl]
             /\ uuids' = Append(uuids, traceId)
             /\ request' = [request EXCEPT ![c] = req]
             /\ events' = [events EXCEPT ![c] =
                    Append(@, LogEvent("info", "mcp_approval_requested", traceId,
                                       cl.toolName, match.risk, <<>>))]
             /\ asked' = [asked EXCEPT ![c] = Append(@, req)]
             /\ gpc' = [gpc EXCEPT ![c] = "awaiting"]
    /\ UNCHANGED <<optsPolicy, decision, executed, outcome, settled>>
    /\ effects' = [effects EXCEPT ![c] = @ \o <<"logger", "requestApproval">>]
    /\ UNCHANGED <<bridgeVars, docVars, fnVars>>

\* The gate's own randomUUID (crypto.randomUUID): an id not returned before,
\* the n-th one being n.
InvokeGated(c) == GatedWith(c, Len(uuids) + 1)

\* The ids an opts.randomUUID given by the gate's maker may return.
InjectedIds == {1, 2}

\* A variant of InvokeGatedInjected for a gate that keeps the first id it
\* got and uses it for every request.
InvokeGatedFirstId(c) ==
    /\ gpc[c] = "idle"
    /\ \E toolName \in ToolNames, args \in ArgValues, now \in NowValues, id \in InjectedIds :
         LET cl == [toolName |-> toolName, args |-> args]
             match == matchPolicy(optsPolicy, cl.toolName)
             traceId == IF uuids = <<>> THEN id ELSE uuids[1]
             req == [traceId |-> traceId, toolName |-> cl.toolName,
                     summary |-> summarize(cl), risk |-> match.risk,
                     displayArgs |-> prepareArgsForDisplay(cl.args, match.argDisplay),
                     createdAtMs |-> now]
         IN  /\ match.requireApproval
             /\ call' = [call EXCEPT ![c] = cl]
             /\ uuids' = Append(uuids, id)
             /\ request' = [request EXCEPT ![c] = req]
             /\ events' = [events EXCEPT ![c] =
                    Append(@, LogEvent("info", "mcp_approval_requested", traceId,
                                       cl.toolName, match.risk, <<>>))]
             /\ asked' = [asked EXCEPT ![c] = Append(@, req)]
             /\ gpc' = [gpc EXCEPT ![c] = "awaiting"]
    /\ UNCHANGED <<optsPolicy, decision, executed, outcome, settled>>
    /\ effects' = [effects EXCEPT ![c] = @ \o <<"logger", "requestApproval">>]
    /\ UNCHANGED <<bridgeVars, docVars, fnVars>>

\* opts.randomUUID is given: it returns what it likes.
InvokeGatedInjected(c) == \E id \in InjectedIds : GatedWith(c, id)

\* A variant of AdapterRejects for a gate that takes a failed adapter for a
\* denial.
AdapterRejectsAsDenial(c) ==
    /\ gpc[c] = "awaiting"
    /\ events' = [events EXCEPT ![c] =
           Append(@, LogEvent("warn", "mcp_approval_denied", request[c].traceId,
                              call[c].toolName, "", <<>>))]
    /\ outcome' = [outcome EXCEPT ![c] =
           Rejected(McpHumanApprovalDeniedError(request[c].traceId, call[c].toolName, <<>>))]
    /\ gpc' = [gpc EXCEPT ![c] = "done"]
    /\ UNCHANGED <<optsPolicy, call, request, decision, executed, asked, settled, uuids>>
    /\ effects' = [effects EXCEPT ![c] = @ \o <<"logger", "throw">>]
    /\ UNCHANGED <<bridgeVars, docVars, fnVars>>

\* requestApproval rejects: the await throws out of executeWithApproval.
AdapterRejects(c) ==
    /\ gpc[c] = "awaiting"
    /\ outcome' = [outcome EXCEPT ![c] = Rejected(AdapterError)]
    /\ gpc' = [gpc EXCEPT ![c] = "done"]
    /\ UNCHANGED <<optsPolicy, call, request, decision, executed, asked, events, settled, uuids>>
    /\ effects' = [effects EXCEPT ![c] = @ \o <<"throw">>]
    /\ UNCHANGED <<bridgeVars, docVars, fnVars>>

\* requestApproval resolves with something assertValidDecision throws on.
InvalidDecision(c) ==
    /\ gpc[c] = "awaiting"
    /\ \E d \in OtherDecisions \cup ApproveDecisions \cup DenyDecisions :
         /\ assertValidDecision(d) # "ok"
         /\ decision' = [decision EXCEPT ![c] = d]
         /\ outcome' = [outcome EXCEPT ![c] =
                Rejected([NoError EXCEPT !.name = assertValidDecision(d)])]
    /\ gpc' = [gpc EXCEPT ![c] = "done"]
    /\ UNCHANGED <<optsPolicy, call, request, executed, asked, events, settled, uuids>>
    /\ effects' = [effects EXCEPT ![c] = @ \o <<"throw">>]
    /\ UNCHANGED <<bridgeVars, docVars, fnVars>>

\* A variant of Denied for a gate that keeps the traceId in a field shared
\* by its calls: the error carries the id made last.
DeniedWithLatestTraceId(c) ==
    /\ gpc[c] = "awaiting"
    /\ \E d \in OtherDecisions \cup ApproveDecisions \cup DenyDecisions :
         /\ assertValidDecision(d) = "ok"
         /\ d.decision = "deny"
         /\ decision' = [decision EXCEPT ![c] = d]
         /\ events' = [events EXCEPT ![c] =
                Append(@, LogEvent("warn", "mcp_approval_denied", request[c].traceId,
                                   call[c].toolName, "", d.reason))]
         /\ outcome' = [outcome EXCEPT ![c] =
                Rejected(McpHumanApprovalDeniedError(uuids[Len(uuids)], call[c].toolName,
                                                     d.reason))]
    /\ gpc' = [gpc EXCEPT ![c] = "done"]
    /\ UNCHANGED <<optsPolicy, call, request, executed, asked, settled, uuids>>
    /\ effects' = [effects EXCEPT ![c] = @ \o <<"logger", "throw">>]
    /\ UNCHANGED <<bridgeVars, docVars, fnVars>>

\* requestApproval resolves with a deny decision.
Denied(c) ==
    /\ gpc[c] = "awaiting"
    /\ \E d \in OtherDecisions \cup ApproveDecisions \cup DenyDecisions :
         /\ assertValidDecision(d) = "ok"
         /\ d.decision = "deny"
         /\ decision' = [decision EXCEPT ![c] = d]
         /\ events' = [events EXCEPT ![c] =
                Append(@, LogEvent("warn", "mcp_approval_denied", request[c].traceId,
                                   call[c].toolName, "", d.reason))]
         /\ outcome' = [outcome EXCEPT ![c] =
                Rejected(McpHumanApprovalDeniedError(request[c].traceId,
                                                     call[c].toolName, d.reason))]
    /\ gpc' = [gpc EXCEPT ![c] = "done"]
    /\ UNCHANGED <<optsPolicy, call, request, executed, asked, settled, uuids>>
    /\ effects' = [effects EXCEPT ![c] = @ \o <<"logger", "throw">>]
    /\ UNCHANGED <<bridgeVars, docVars, fnVars>>

\* const args = decision.overrideArgs ?? call.args
ExecutedArgs(d, cl) == Coalesce(d.overrideArgs, cl.args)

\* A variant of Approved whose executor call may name any tool.
ApprovedForAnyTool(c) ==
    /\ gpc[c] = "awaiting"
    /\ \E d \in OtherDecisions \cup ApproveDecisions \cup DenyDecisions :
         /\ assertValidDecision(d) = "ok"
         /\ d.decision # "deny"
         /\ decision' = [decision EXCEPT ![c] = d]
         /\ events' = [events EXCEPT ![c] =
                Append(@, LogEvent("info", "mcp_approval_approved", request[c].traceId,
                                   call[c].toolName, "", <<>>))]
         /\ \E toolName \in ToolNames :
              executed' = [executed EXCEPT ![c] =
                 Append(@, [toolName |-> toolName, args |-> ExecutedArgs(d, call[c])])]
    /\ gpc' = [gpc EXCEPT ![c] = "executing"]
    /\ UNCHANGED <<optsPolicy, call, request, outcome, asked, settled, uuids>>
    /\ effects' = [effects EXCEPT ![c] = @ \o <<"logger", "executor">>]
    /\ UNCHANGED <<bridgeVars, docVars, fnVars>>

\* A variant of Approved that invokes the executor first and logs after.
ApprovedLoggedAfter(c) ==
    /\ gpc[c] = "awaiting"
    /\ \E d \in OtherDecisions \cup ApproveDecisions \cup DenyDecisions :
         /\ assertValidDecision(d) = "ok"
         /\ d.decision # "deny"
         /\ decision' = [decision EXCEPT ![c] = d]
         /\ events' = [events EXCEPT ![c] =
                Append(@, LogEvent("info", "mcp_approval_approved", request[c].traceId,
                                   call[c].toolName, "", <<>>))]
         /\ executed' = [executed EXCEPT ![c] =
                Append(@, [call[c] EXCEPT !.args = ExecutedArgs(d, call[c])])]
    /\ gpc' = [gpc EXCEPT ![c] = "executing"]
    /\ UNCHANGED <<optsPolicy, call, request, outcome, asked, settled, uuids>>
    /\ effects' = [effects EXCEPT ![c] = @ \o <<"executor", "logger">>]
    /\ UNCHANGED <<bridgeVars, docVars, fnVars>>

\* requestApproval resolves with an approve decision: the executor is invoked.
Approved(c) ==
    /\ gpc[c] = "awaiting"
    /\ \E d \in OtherDecisions \cup ApproveDecisions \cup DenyDecisions :
         /\ assertValidDecision(d) = "ok"
         /\ d.decision # "deny"
         /\ decision' = [decision EXCEPT ![c] = d]
         /\ events' = [events EXCEPT ![c] =
                Append(@, LogEvent("info", "mcp_approval_approved", request[c].traceId,
                                   call[c].toolName, "", <<>>))]
         /\ executed' = [executed EXCEPT ![c] =
                Append(@, [call[c] EXCEPT !.args = ExecutedArgs(d, call[c])])]
    /\ gpc' = [gpc EXCEPT ![c] = "executing"]
    /\ UNCHANGED <<optsPolicy, call, request, outcome, asked, settled, uuids>>
    /\ effects' = [effects EXCEPT ![c] = @ \o <<"logger", "executor">>]
    /\ UNCHANGED <<bridgeVars, docVars, fnVars>>

\* A variant of Passed that turns a failure of the executor into a denial.
PassedAsDenial(settlement) ==
    IF settlement.status = "threw"
    THEN [settlement EXCEPT !.error = McpHumanApprovalDeniedError(0, "", <<>>)]
    ELSE settlement

\* What executeWithApproval settles with once the executor has: it returns
\* the executor's promise.
Passed(settlement) == settlement

\* The executor's promise resolves.
ExecutorReturns(c) ==
    /\ gpc[c] = "executing"
    /\ \E r \in ExecutorResults :
         /\ settled' = [settled EXCEPT ![c] = Resolved(r)]
         /\ outcome' = [outcome EXCEPT ![c] = Passed(Resolved(r))]
    /\ gpc' = [gpc EXCEPT ![c] = "done"]
    /\ UNCHANGED <<optsPolicy, call, request, decision, executed, asked, events, uuids>>
    /\ effects' = [effects EXCEPT ![c] = @ \o <<"return">>]
    /\ UNCHANGED <<bridgeVars, docVars, fnVars>>

\* The executor throws, or its promise rejects.
ExecutorThrows(c) ==
    /\ gpc[c] = "executing"
    /\ settled' = [settled EXCEPT ![c] = Rejected(ExecutorError)]
    /\ outcome' = [outcome EXCEPT ![c] = Passed(Rejected(ExecutorError))]
    /\ gpc' = [gpc EXCEPT ![c] = "done"]
    /\ UNCHANGED <<optsPolicy, call, request, decision, executed, asked, events, uuids>>
    /\ effects' = [effects EXCEPT ![c] = @ \o <<"throw">>]
    /\ UNCHANGED <<bridgeVars, docVars, fnVars>>

GateNext ==
    \/ \E c \in Calls : InvokeBypass(c)
    \/ \E c \in Calls : InvokeGated(c)
    \/ \E c \in Calls : AdapterRejects(c)
    \/ \E c \in Calls : InvalidDecision(c)
    \/ \E c \in Calls : Denied(c)
    \/ \E c \in Calls : Approved(c)
    \/ \E c \in Calls : ExecutorReturns(c)
    \/ \E c \in Calls : ExecutorThrows(c)

\* A gate made with one of Policies, beside an idle bridge.
GateInit ==
    BridgeInit /\ file = Missing /\ optsPolicy \in Policies /\ GateCallsInit /\ DocIdle /\ FnIdle

GateSpec == GateInit /\ [][GateNext]_vars

\* The gate when its maker gave it an opts.randomUUID.
InjectedNext ==
    \/ \E c \in Calls : InvokeBypass(c)
    \/ \E c \in Calls : InvokeGatedInjected(c)
    \/ \E c \in Calls : AdapterRejects(c)
    \/ \E c \in Calls : InvalidDecision(c)
    \/ \E c \in Calls : Denied(c)
    \/ \E c \in Calls : Approved(c)
    \/ \E c \in Calls : ExecutorReturns(c)
    \/ \E c \in Calls : ExecutorThrows(c)

InjectedSpec == GateInit /\ [][InjectedNext]_vars

(***************************************************************************)
(* prepareArgsForDisplay on values up to MaxInputDepth containers deep.    *)
(***************************************************************************)
MaxInputDepth == 2

\* Strings of one, two and three characters, null, and a value that is
\* neither (undefined, a function).
Filler == Str(<<"x", "y">>)
Leaves == {Str(<<"a">>), Filler, Str(<<"a", "b", "c">>), Null, Undefined}

\* Arrays of one to three elements and objects of one to three keys that
\* hold t: under a key a rule names, under other keys, beside such keys.
Containers(t) ==
    {Arr(<<t>>), Arr(<<t, Filler>>), Arr(<<Filler, Filler, t>>),
     Obj(<<"token">>, <<t>>),
     Obj(<<"path">>, <<t>>),
     Obj(<<"path", "token">>, <<t, Filler>>),
     Obj(<<"Token", "path", "token">>, <<t, Filler, Filler>>)}

RECURSIVE Trees(_)
Trees(d) ==
    IF d = 0 THEN Leaves
    ELSE Leaves \cup UNION {Containers(t) : t \in Trees(d - 1)}

DisplayInputs == Trees(MaxInputDepth)

\* A rule of the kind applyKeyRedactions skips.
TruncateStringRule == [kind |-> "truncateString", key |-> "token", replacement |-> <<>>]

DisplayRules ==
    {<<>>,
     <<RedactKey("token")>>,
     <<TruncateStringRule, [RedactKey("token") EXCEPT !.replacement = <<"X">>],
       RedactKey("token")>>}

DisplayOpts ==
    [maxDepth : {0, 1}, maxStringLen : {1, 2}, maxArrayLen : {1, 2},
     maxObjectKeys : {1, 2}, rules : DisplayRules, undef : {{}}]

\* prepareArgsForDisplay is evaluated on the input and options at hand.
Show ==
    /\ shown.output = <<>>
    /\ shown' = [shown EXCEPT !.output = <<prepareArgsForDisplay(shown.input, shown.opts)>>]
    /\ UNCHANGED <<bridgeVars, gateVars, docVars, matched, tool>>

DisplayNext == Show

DisplayInit ==
    /\ BridgeInit /\ file = Missing
    /\ optsPolicy = defaultMcpApprovalPolicy /\ GateCallsInit /\ DocIdle
    /\ matched = NoMatched /\ tool = NoTools
    /\ shown \in [input : DisplayInputs, opts : DisplayOpts, output : {<<>>}]

DisplaySpec == DisplayInit /\ [][DisplayNext]_vars

(***************************************************************************)
(* prepareArgsForDisplay on values that may refer to themselves.  A value  *)
(* is a heap of nodes; the elements of an array node and the values of an  *)
(* object node are references to nodes of the heap.                        *)
(***************************************************************************)
\* The calls the runtime lets walk nest before it raises RangeError.
StackLimit == 4

RangeError == Scalar("RangeError", <<>>)

Refs == {1, 2}

HeapNodes ==
    {Str(<<"a">>), Null, Undefined}
    \cup {Arr(<<r>>) : r \in Refs}
    \cup {Arr(<<r, q>>) : r \in Refs, q \in Refs}
    \cup {Obj(<<"self">>, <<r>>) : r \in Refs}
    \cup {Obj(<<"token", "path">>, <<r, q>>) : r \in Refs, q \in Refs}

\* The input of prepareArgsForDisplay is node 1 of the heap.
Heaps == [Refs -> HeapNodes]

\* The heap refers back to a node on some way down from node 1.
RECURSIVE ReachableFrom(_, _, _)
ReachableFrom(heap, r, n) ==
    IF n = 0 THEN {r}
    ELSE {r} \cup UNION {ReachableFrom(heap, heap[r].items[i], n - 1) :
                            i \in DOMAIN heap[r].items}

SelfReferential(heap) ==
    \E r \in ReachableFrom(heap, 1, Cardinality(Refs)) :
       \E i \in DOMAIN heap[r].items :
          r \in ReachableFrom(heap, heap[r].items[i], Cardinality(Refs))

\* A variant of walkHeap without its first line.
RECURSIVE walkHeapWithoutDepthLimit(_, _, _, _)
walkHeapWithoutDepthLimit(heap, ref, opts, depth) ==
    LET value == heap[ref] IN
    IF depth + 1 > StackLimit THEN RangeError
    ELSE CASE value.t = "str" -> Str(truncateString(value.s, opts.maxStringLen))
           [] value.t \in {"num", "bool", "null"} -> value
           [] value.t = "arr" ->
                LET n == Min(Len(value.items), opts.maxArrayLen)
                    mapped == [i \in 1..n |->
                                 walkHeapWithoutDepthLimit(heap, value.items[i], opts, depth + 1)]
                IN  IF \E i \in 1..n : mapped[i] = RangeError THEN RangeError
                    ELSE Arr(IF Len(value.items) > n
                             THEN Append(mapped, Str(<<"[TRUNCATED_ARRAY]">>))
                             ELSE mapped)
           [] value.t = "obj" ->
                LET n == Min(Len(value.keys), opts.maxObjectKeys)
                    items == [i \in 1..n |->
                                LET redacted == applyKeyRedactions(value.keys[i], opts.rules)
                                IN  IF redacted # <<>> THEN redacted[1]
                                    ELSE walkHeapWithoutDepthLimit(heap, value.items[i], opts, depth + 1)]
                IN  IF \E i \in 1..n : items[i] = RangeError THEN RangeError
                    ELSE IF Len(value.keys) <= n THEN Obj(value.keys, items)
                    ELSE Obj(Append(SubSeq(value.keys, 1, n), "__truncated__"),
                             Append(items, Bool("true")))
           [] OTHER -> Str(<<"[UNSERIALIZABLE]">>)

\* walk on the node ref of heap, in the depth-th nested call; a call beyond
\* StackLimit raises RangeError, which no caller catches.
RECURSIVE walkHeap(_, _, _, _)
walkHeap(heap, ref, opts, depth) ==
    LET value == heap[ref] IN
    IF depth + 1 > StackLimit THEN RangeError
    ELSE IF depth > opts.maxDepth THEN Str(<<"[TRUNCATED_DEPTH]">>)
    ELSE CASE value.t = "str" -> Str(truncateString(value.s, opts.maxStringLen))
           [] value.t \in {"num", "bool", "null"} -> value
           [] value.t = "arr" ->
                LET n == Min(Len(value.items), opts.maxArrayLen)
                    mapped == [i \in 1..n |->
                                 walkHeap(heap, value.items[i], opts, depth + 1)]
                IN  IF \E i \in 1..n : mapped[i] = RangeError THEN RangeError
                    ELSE Arr(IF Len(value.items) > n
                             THEN Append(mapped, Str(<<"[TRUNCATED_ARRAY]">>))
                             ELSE mapped)
           [] value.t = "obj" ->
                LET n == Min(Len(value.keys), opts.maxObjectKeys)
                    items == [i \in 1..n |->
                                LET redacted == applyKeyRedactions(value.keys[i], opts.rules)
                                IN  IF redacted # <<>> THEN redacted[1]
                                    ELSE walkHeap(heap, value.items[i], opts, depth + 1)]
                IN  IF \E i \in 1..n : items[i] = RangeError THEN RangeError
                    ELSE IF Len(value.keys) <= n THEN Obj(value.keys, items)
                    ELSE Obj(Append(SubSeq(value.keys, 1, n), "__truncated__"),
                             Append(items, Bool("true")))
           [] OTHER -> Str(<<"[UNSERIALIZABLE]">>)

\* prepareArgsForDisplay is evaluated on node 1 of the heap at hand.
ShowHeap ==
    /\ shown.output = <<>>
    /\ shown' = [shown EXCEPT !.output = <<walkHeap(shown.input, 1, shown.opts, 0)>>]
    /\ UNCHANGED <<bridgeVars, gateVars, docVars, matched, tool>>

HeapNext == ShowHeap

HeapInit ==
    /\ BridgeInit /\ file = Missing
    /\ optsPolicy = defaultMcpApprovalPolicy /\ GateCallsInit /\ DocIdle
    /\ matched = NoMatched /\ tool = NoTools
    /\ shown \in [input : Heaps, opts : DisplayOpts, output : {<<>>}]

HeapSpec == HeapInit /\ [][HeapNext]_vars

(***************************************************************************)
(* matchPolicy on the policies a gate can be made with.                    *)
(***************************************************************************)
\* What a rule's argDisplay can be: nothing, one limit, a list of redaction
\* rules, a limit property whose value is undefined.
ArgDisplays ==
    {NoArgDisplay,
     [NoArgDisplay EXCEPT !.fields = {"maxStringLen", "maxDepth"},
                          !.maxStringLen = 1, !.maxDepth = 2],
     [NoArgDisplay EXCEPT !.fields = {"rules", "maxArrayLen", "maxObjectKeys"},
                          !.rules = <<RedactKey("secret")>>,
                          !.maxArrayLen = 3, !.maxObjectKeys = 5],
     [NoArgDisplay EXCEPT !.fields = {"maxDepth", "rules"}, !.undef = {"maxDepth", "rules"}]}

ToolRules ==
    {ToolRule(toolName, requireApproval, risk, argDisplay) :
        toolName \in {"readFile", "writeFile"},
        requireApproval \in {"unset", "true", "false"},
        risk \in {"unset", "high"},
        argDisplay \in ArgDisplays}

PolicyInputs ==
    [defaultRequireApproval : BOOLEAN,
     allowlist : SUBSET {"readFile"},
     denylist : SUBSET {"readFile"},
     tools : {<<>>} \cup {<<r>> : r \in ToolRules}
                    \cup {<<r1, r2>> : r1 \in ToolRules, r2 \in ToolRules}]

PolicyInit ==
    /\ BridgeInit /\ file = Missing
    /\ optsPolicy \in PolicyInputs
    /\ GateCallsInit /\ DocIdle /\ FnIdle

PolicyNext == \E toolName \in ToolNames : Match(toolName)

PolicySpec == PolicyInit /\ [][PolicyNext]_vars

(***************************************************************************)
(* The prompt bridge's processes.                                          *)
(***************************************************************************)
Next ==
    \/ \E p \in Procs : CallEnqueue(p)
    \/ \E p \in Procs : CallListPending(p)
    \/ \E p \in Procs : CallSubmit(p)
    \/ \E p \in Procs : CallWait(p)
    \/ \E p \in Procs : Mkdir(p)
    \/ \E p \in Procs : MkdirRetry(p)
    \/ \E p \in Procs : MkdirTimeout(p)
    \/ \E p \in Procs : ReadAndMutate(p)
    \/ \E p \in Procs : WriteTmp(p)
    \/ \E p \in Procs : Rename(p)
    \/ \E p \in Procs : RmAndReturn(p)
    \/ \E p \in Procs : RmAndSleep(p)
    \/ \E p \in Procs : Rethrown(p)
    \/ \E p \in Procs : WaitPoll(p)
    \/ \E p \in Procs : WaitTimeout(p)
    \/ \E p \in Procs : WaitWake(p)
    \/ Tick

\* The bridge's processes, beside a gate nobody calls.
Init == BridgeInit /\ optsPolicy = defaultMcpApprovalPolicy /\ GateCallsInit /\ DocIdle /\ FnIdle

Spec == Init /\ [][Next]_vars

(***************************************************************************)
(* The handraise_ask_user tool: askUserViaCliBridge enqueues a prompt      *)
(* under a fresh id and waits for its response; a responder lists and      *)
(* submits meanwhile.                                                      *)
(***************************************************************************)
ToolProcs == {"a"}
Responders == Procs \ ToolProcs

\* structuredContent of the early returns in the two catch blocks.
CancelReturn == [action |-> "cancel", answer |-> "null"]

\* A variant of ReturnAfterWait in which the second catch block rethrows.
ReturnAfterWaitRethrowing(r) ==
    IF r.status = "throw" THEN [action |-> "throw", answer |-> r.error]
    ELSE IF r.response[1].action # "accept"
         THEN [action |-> r.response[1].action, answer |-> "null"]
         ELSE [action |-> "accept", answer |-> "response.answer ?? null"]

\* structuredContent once waitForAskUserResponse has ended with r.
ReturnAfterWait(r) ==
    IF r.status = "throw" THEN CancelReturn
    ELSE IF r.response[1].action # "accept"
         THEN [action |-> r.response[1].action, answer |-> "null"]
         ELSE [action |-> "accept", answer |-> "response.answer ?? null"]

\* The running call of p ends: finally has removed the lock, or the error
\* of a lock or wait timeout has reached the caller.
CallEnds(p) ==
    /\ \/ /\ pc[p] = "rm"
          /\ ~(TookNothing(p))
          /\ lockDir' = FALSE
       \/ /\ pc[p] = "threw"
          /\ UNCHANGED lockDir
    /\ FinishedBridge(p)
    /\ UNCHANGED <<file, tmpFile>>

\* promptId = randomUUID(); enqueueAskUserPrompt(statePath, {id: promptId, ...}).
ToolCall(p) ==
    /\ tool[p].phase \in {"none", "done"}
    /\ \E id \in PromptIds \ tool[p].used, at \in CreatedAts :
          /\ StartCallBridge(p, [NoOp EXCEPT !.kind = "enqueue",
                                             !.prompt = [id |-> id, createdAt |-> at]],
                             "mkdir")
          /\ tool' = [tool EXCEPT ![p] = [phase |-> "enqueue", promptId |-> id,
                                          used |-> @.used \cup {id},
                                          ret |-> NoToolReturn]]
    /\ UNCHANGED <<waitLeft, sleepLeft, gateVars, docVars, matched, shown>>

\* enqueueAskUserPrompt has ended: the catch block returns cancel, or the
\* call goes on to wait.
ToolEnqueueEnds(p) ==
    /\ tool[p].phase = "enqueue"
    /\ CallEnds(p)
    /\ tool' = [tool EXCEPT ![p] =
                  IF result[p].status = "throw"
                  THEN [@ EXCEPT !.phase = "done", !.ret = CancelReturn]
                  ELSE [@ EXCEPT !.phase = "enqueued"]]
    /\ UNCHANGED <<gateVars, docVars, matched, shown>>

\* waitForAskUserResponse(statePath, promptId, waitTimeoutMs)
ToolWait(p) ==
    /\ tool[p].phase = "enqueued"
    /\ \E timeoutMs \in 0..MaxTimeoutMs, pollIntervalMs \in 0..MaxPollMs :
          /\ StartCallBridge(p, [NoOp EXCEPT !.kind = "wait", !.promptId = tool[p].promptId,
                                             !.pollIntervalMs = pollIntervalMs], "check")
          /\ waitLeft' = [waitLeft EXCEPT ![p] = Max(timeoutMs, pollIntervalMs)]
    /\ tool' = [tool EXCEPT ![p].phase = "wait"]
    /\ UNCHANGED <<sleepLeft, gateVars, docVars, matched, shown>>

\* waitForAskUserResponse has ended: the tool returns.
ToolWaitEnds(p) ==
    /\ tool[p].phase = "wait"
    /\ CallEnds(p)
    /\ tool' = [tool EXCEPT ![p] = [@ EXCEPT !.phase = "done",
                                             !.ret = ReturnAfterWait(result[p])]]
    /\ UNCHANGED <<gateVars, docVars, matched, shown>>

ToolNext ==
    \/ \E p \in ToolProcs : ToolCall(p)
    \/ \E p \in ToolProcs : ToolEnqueueEnds(p)
    \/ \E p \in ToolProcs : ToolWait(p)
    \/ \E p \in ToolProcs : ToolWaitEnds(p)
    \/ \E p \in Responders : CallListPending(p)
    \/ \E p \in Responders : CallSubmit(p)
    \/ \E p \in Responders : RmAndReturn(p)
    \/ \E p \in Responders : Rethrown(p)
    \/ \E p \in Procs : Mkdir(p)
    \/ \E p \in Procs : MkdirRetry(p)
    \/ \E p \in Procs : MkdirTimeout(p)
    \/ \E p \in Procs : ReadAndMutate(p)
    \/ \E p \in Procs : WriteTmp(p)
    \/ \E p \in Procs : Rename(p)
    \/ \E p \in Procs : RmAndSleep(p)
    \/ \E p \in Procs : WaitPoll(p)
    \/ \E p \in Procs : WaitTimeout(p)
    \/ \E p \in Procs : WaitWake(p)
    \/ Tick

ToolSpec == Init /\ [][ToolNext]_vars

(***************************************************************************)
(* waitForAskUserResponse with a note of whether the call has entered its  *)
(* loop: tool[p].phase is "begun" from the call on and "tried" from the    *)
(* first takeAskUserResponse on.                                           *)
(***************************************************************************)
\* const deadline = Date.now() + Math.max(timeoutMs, pollIntervalMs)
WaitBegins(p) ==
    /\ \E id \in PromptIds, timeoutMs \in 0..MaxTimeoutMs, pollIntervalMs \in 0..MaxPollMs :
          /\ StartCallBridge(p, [NoOp EXCEPT !.kind = "wait", !.promptId = id,
                                             !.pollIntervalMs = pollIntervalMs], "check")
          /\ waitLeft' = [waitLeft EXCEPT ![p] = Max(timeoutMs, pollIntervalMs)]
          /\ tool' = [tool EXCEPT ![p] = [NoTool EXCEPT !.phase = "begun", !.promptId = id]]
    /\ UNCHANGED <<sleepLeft, gateVars, docVars, matched, shown>>

\* while (Date.now() <= deadline): takeAskUserResponse is called.
WaitTries(p) ==
    /\ WaitPollBridge(p)
    /\ tool' = [tool EXCEPT ![p].phase = "tried"]
    /\ UNCHANGED <<gateVars, docVars, matched, shown>>

FirstPollNext ==
    \/ \E p \in ToolProcs : WaitBegins(p)
    \/ \E p \in ToolProcs : WaitTries(p)
    \/ \E p \in Responders : CallEnqueue(p)
    \/ \E p \in Responders : CallListPending(p)
    \/ \E p \in Responders : CallSubmit(p)
    \/ \E p \in Procs : Mkdir(p)
    \/ \E p \in Procs : MkdirRetry(p)
    \/ \E p \in Procs : MkdirTimeout(p)
    \/ \E p \in Procs : ReadAndMutate(p)
    \/ \E p \in Procs : WriteTmp(p)
    \/ \E p \in Procs : Rename(p)
    \/ \E p \in Procs : RmAndReturn(p)
    \/ \E p \in Procs : RmAndSleep(p)
    \/ \E p \in Procs : Rethrown(p)
    \/ \E p \in Procs : WaitTimeout(p)
    \/ \E p \in Procs : WaitWake(p)
    \/ Tick

FirstPollSpec == Init /\ [][FirstPollNext]_vars

(***************************************************************************)
(* The responder of ask-user-cli.ts (runLegacyCliMode without once): it    *)
(* lists the pending prompts, submits a response for the first of them,    *)
(* and starts over; an error of either call ends the loop.                 *)
(***************************************************************************)
\* const pending = await listPendingAskUserPrompts(statePath)
RespondList(p) ==
    /\ tool[p].phase = "none"
    /\ StartCallBridge(p, [NoOp EXCEPT !.kind = "list"], "mkdir")
    /\ tool' = [tool EXCEPT ![p].phase = "list"]
    /\ UNCHANGED <<waitLeft, sleepLeft, gateVars, docVars, matched, shown>>

\* A variant of RespondListEnds as in once mode: the loop returns when
\* nothing is pending.
RespondListEndsOnce(p) ==
    /\ tool[p].phase = "list"
    /\ CallEnds(p)
    /\ tool' = [tool EXCEPT ![p] =
                  IF result[p].status = "throw" THEN [@ EXCEPT !.phase = "stopped"]
                  ELSE IF result[p].pending = <<>> THEN [@ EXCEPT !.phase = "returned"]
                  ELSE [@ EXCEPT !.phase = "answer",
                                 !.promptId = result[p].pending[1].id]]
    /\ UNCHANGED <<gateVars, docVars, matched, shown>>

\* The list has ended: nothing pending (sleep, continue), or pending[0] is
\* the prompt to answer; an error leaves the loop.
RespondListEnds(p) ==
    /\ tool[p].phase = "list"
    /\ CallEnds(p)
    /\ tool' = [tool EXCEPT ![p] =
                  IF result[p].status = "throw" THEN [@ EXCEPT !.phase = "stopped"]
                  ELSE IF result[p].pending = <<>> THEN [@ EXCEPT !.phase = "none"]
                  ELSE [@ EXCEPT !.phase = "answer",
                                 !.promptId = result[p].pending[1].id]]
    /\ UNCHANGED <<gateVars, docVars, matched, shown>>

\* collectPromptResponseLegacy, then submitAskUserResponse(statePath, response).
RespondSubmit(p) ==
    /\ tool[p].phase = "answer"
    /\ \E act \in ResponseActions :
          StartCallBridge(p, [NoOp EXCEPT !.kind = "submit",
                                          !.response = [promptId |-> tool[p].promptId,
                                                        action |-> act]], "mkdir")
    /\ tool' = [tool EXCEPT ![p].phase = "submit"]
    /\ UNCHANGED <<waitLeft, sleepLeft, gateVars, docVars, matched, shown>>

\* The submit has ended, stored or not: the loop starts over.
RespondSubmitEnds(p) ==
    /\ tool[p].phase = "submit"
    /\ CallEnds(p)
    /\ tool' = [tool EXCEPT ![p] =
                  IF result[p].status = "throw" THEN [@ EXCEPT !.phase = "stopped"]
                  ELSE [@ EXCEPT !.phase = "none", !.promptId = ""]]
    /\ UNCHANGED <<gateVars, docVars, matched, shown>>

\* The steps of p that follow from a call it has begun.
Continue(p) ==
    \/ MkdirTimeout(p) \/ ReadAndMutate(p) \/ WriteTmp(p) \/ Rename(p)
    \/ RmAndSleep(p) \/ WaitPoll(p) \/ WaitTimeout(p) \/ WaitWake(p)
    \/ (p \in ToolProcs /\ (ToolEnqueueEnds(p) \/ ToolWait(p) \/ ToolWaitEnds(p)))
    \/ (p \in Responders /\ (RespondList(p) \/ RespondListEnds(p) \/ RespondSubmit(p)
                                \/ RespondSubmitEnds(p)))

RespondNext ==
    \/ \E p \in ToolProcs : ToolCall(p)
    \/ \E p \in ToolProcs : ToolEnqueueEnds(p)
    \/ \E p \in ToolProcs : ToolWait(p)
    \/ \E p \in ToolProcs : ToolWaitEnds(p)
    \/ \E p \in Responders : RespondList(p)
    \/ \E p \in Responders : RespondListEnds(p)
    \/ \E p \in Responders : RespondSubmit(p)
    \/ \E p \in Responders : RespondSubmitEnds(p)
    \/ \E p \in Procs : Mkdir(p)
    \/ \E p \in Procs : MkdirRetry(p)
    \/ \E p \in Procs : MkdirTimeout(p)
    \/ \E p \in Procs : ReadAndMutate(p)
    \/ \E p \in Procs : WriteTmp(p)
    \/ \E p \in Procs : Rename(p)
    \/ \E p \in Procs : RmAndSleep(p)
    \/ \E p \in Procs : WaitPoll(p)
    \/ \E p \in Procs : WaitTimeout(p)
    \/ \E p \in Procs : WaitWake(p)
    \/ Tick

\* Fair scheduling: time passes, every process goes on with the call it is
\* in and the responder with its loop, and a process at mkdir gets the
\* directory when it stays free.  Nobody is bound to start a tool call.
RespondFairness ==
    /\ WF_vars(Tick)
    /\ \A p \in Procs : WF_vars(Continue(p)) /\ WF_vars(Mkdir(p))

RespondSpec == Init /\ [][RespondNext]_vars /\ RespondFairness

\* The document under whole operations, from a missing or an empty file.
DocSpec == Init /\ [][DocNext]_vars

\* A document of another version, with a prompt waiting in it.
OtherVersion ==
    [kind |-> "json", version |-> 2,
     prompts |-> <<[id |-> "p1", createdAt |-> 1]>>, responses |-> <<>>]

\* The document under whole operations, from a file that is missing, cut
\* short, of another version, or an empty version-1 document.
HealInit ==
    /\ file \in {Missing, Partial, OtherVersion, Stringify(emptyState)}
    /\ BridgeIdle
    /\ optsPolicy = defaultMcpApprovalPolicy /\ GateCallsInit /\ DocIdle /\ FnIdle

HealSpec == HealInit /\ [][DocNext]_vars

\* listPending on any version-1 document a file can hold: up to three
\* prompts with distinct ids in any order, createdAt up to MaxCreatedAt,
\* any of them answered.
MaxCreatedAt == 2

ListIds == PromptIds \cup {"p3"}

ListPrompts ==
    {q \in UNION {[1..n -> [id : ListIds, createdAt : 1..MaxCreatedAt]] :
                     n \in 0..Cardinality(ListIds)} :
        \A i, j \in DOMAIN q : q[i].id = q[j].id => i = j}

ListResponses ==
    {[i \in DOMAIN ids |-> [promptId |-> ids[i], action |-> "accept"]] :
        ids \in {SelectSeq(<<"p1", "p2", "p3">>, LAMBDA id : id \in answered) :
                    answered \in SUBSET ListIds}}

ListInit ==
    /\ file \in {Stringify([version |-> 1, prompts |-> q, responses |-> r]) :
                    q \in ListPrompts, r \in ListResponses}
    /\ BridgeIdle
    /\ optsPolicy = defaultMcpApprovalPolicy /\ GateCallsInit /\ DocIdle /\ FnIdle

ListNext == WholeListPending

ListSpec == ListInit /\ [][ListNext]_vars

\* The bridge's processes when one may die inside withStateLock.
CrashNext ==
    \/ Next
    \/ \E p \in Procs : Crash(p)
    \/ ExternalRmLock

CrashSpec == Init /\ [][CrashNext]_vars

\* The bridge's processes when writeBridgeState may fail.  Only the server
\* of handraise_ask_user calls waitForAskUserResponse.
FailNext ==
    \/ \E p \in Procs : CallEnqueue(p)
    \/ \E p \in Procs : CallListPending(p)
    \/ \E p \in Procs : CallSubmit(p)
    \/ \E p \in Procs : Mkdir(p)
    \/ \E p \in Procs : MkdirRetry(p)
    \/ \E p \in Procs : MkdirTimeout(p)
    \/ \E p \in Procs : ReadAndMutate(p)
    \/ \E p \in Procs : WriteTmp(p)
    \/ \E p \in Procs : Rename(p)
    \/ \E p \in Procs : RmAndReturn(p)
    \/ \E p \in Procs : Rethrown(p)
    \/ \E p \in ToolProcs : CallWait(p)
    \/ \E p \in ToolProcs : RmAndSleep(p)
    \/ \E p \in ToolProcs : WaitPoll(p)
    \/ \E p \in ToolProcs : WaitTimeout(p)
    \/ \E p \in ToolProcs : WaitWake(p)
    \/ Tick
    \/ \E p \in Procs : WriteFails(p)
    \/ \E p \in Procs : RenameFails(p)

FailSpec == Init /\ [][FailNext]_vars

(***************************************************************************)
(* Properties of the prompt bridge.                                        *)
(***************************************************************************)
\* The document a reader of the file sees.
Document == readBridgeState(file)

PendingIds(s) == PromptIdsOf(listPendingFromState(s))

\* The processes inside the critical section, after the mutator has run.
Mutated(kind) == {p \in Procs : op[p].kind = kind /\ pc[p] \in {"write", "rename", "rm"}}

\* C1: the document never holds more than one prompt without a matching
\* response, whatever the interleaving of enqueue, listPending,
\* submitResponse and waitForResponse calls.
C1_AtMostOnePending == Cardinality(PendingIds(Document)) <= 1

\* C1 witness: the document holds two prompts, one answered and one pending.
C1_Witness ==
    /\ Len(Document.prompts) = 2
    /\ Cardinality(PendingIds(Document)) = 1

\* C6: an enqueue that finds a prompt with another id pending throws the
\* only-one-pending error, writes nothing, and the document is as it was read.
C6_RejectedEnqueueLeavesDocument ==
    \A p \in Mutated("enqueue") :
        (PendingIds(readBridgeState(before[p])) \ {op[p].prompt.id}) # {}
        => /\ pc[p] = "rm"
           /\ result[p] = Threw(ErrOnlyOnePending)
           /\ state[p] = readBridgeState(before[p])
           /\ file = before[p]
           /\ tmpFile = Missing

\* C6 witness: an enqueue of p2 was rejected while p1 is pending.
C6_Witness ==
    \E p \in Mutated("enqueue") :
        /\ pc[p] = "rm"
        /\ result[p].status = "throw"
        /\ PendingIds(Document) = {"p1"}
        /\ op[p].prompt.id = "p2"

\* C7: an enqueue of a new id that finds every prompt of the document
\* answered returns without error and the prompt is stored, and pending.
C7_EnqueueAfterAnswered ==
    \A p \in Mutated("enqueue") :
        (/\ PendingIds(readBridgeState(before[p])) = {}
         /\ op[p].prompt.id \notin PromptIdsOf(readBridgeState(before[p]).prompts))
        => /\ result[p] = Returned
           /\ state[p].prompts = Append(readBridgeState(before[p]).prompts, op[p].prompt)
           /\ state[p].responses = readBridgeState(before[p]).responses
           /\ pc[p] = "rm" => /\ file = Stringify(state[p])
                              /\ op[p].prompt.id \in PendingIds(Document)

\* C7 witness: an enqueue succeeded on a document that held an answered,
\* not yet consumed prompt.
C7_Witness ==
    \E p \in Mutated("enqueue") :
        /\ pc[p] = "rm"
        /\ readBridgeState(before[p]).prompts # <<>>
        /\ PendingIds(readBridgeState(before[p])) = {}
        /\ op[p].prompt.id \in PendingIds(Document)
        /\ Len(Document.prompts) = 2

\* C8: a submitResponse for an id that is no prompt of the document returns
\* false and writes back the prompts and responses it read; and a wait only
\* ever returns a response that was stored in the document it read.
C8_UnknownPromptRejected ==
    /\ \A p \in Mutated("submit") :
          op[p].response.promptId \notin PromptIdsOf(readBridgeState(before[p]).prompts)
          => /\ result[p] = Returned
             /\ ~result[p].accepted
             /\ state[p] = readBridgeState(before[p])
             /\ pc[p] = "rm" => Document = readBridgeState(before[p])
    /\ \A w \in Mutated("wait") :
          \A i \in DOMAIN result[w].response :
              \E j \in DOMAIN readBridgeState(before[w]).responses :
                  readBridgeState(before[w]).responses[j] = result[w].response[i]

\* C8 witness: a submitResponse was rejected on a document that holds a
\* prompt with another id.
C8_Witness ==
    \E p \in Mutated("submit") :
        /\ pc[p] = "rm"
        /\ ~result[p].accepted
        /\ Document.prompts # <<>>
        /\ op[p].response.promptId \notin PromptIdsOf(Document.prompts)

\* C9 (as amended): a poll of waitForResponse(p) that finds a response for p
\* in the document returns that response, and the document it writes back
\* holds neither prompt p nor a response for p, so p is no longer pending.
C9_PollReturnsStoredResponse ==
    \A w \in Mutated("wait") :
        LET read == readBridgeState(before[w])
            q == op[w].promptId
        IN  q \in RespondedIdsOf(read.responses)
            => /\ result[w].status = "return"
               /\ result[w].response = <<read.responses[FindResponseIndex(read.responses, q)]>>
               /\ q \notin PromptIdsOf(state[w].prompts)
               /\ q \notin RespondedIdsOf(state[w].responses)
               /\ pc[w] = "rm" => /\ q \notin PromptIdsOf(Document.prompts)
                                  /\ q \notin RespondedIdsOf(Document.responses)
                                  /\ q \notin PendingIds(Document)

\* C9 witness: a wait took the response of its prompt and the document is
\* written back without them.
C9_Witness ==
    \E w \in Mutated("wait") :
        /\ pc[w] = "rm"
        /\ result[w].response # <<>>
        /\ op[w].promptId \in PromptIdsOf(readBridgeState(before[w]).prompts)
        /\ op[w].promptId \notin PromptIdsOf(Document.prompts)

\* C9 (as stated): a wait for p returns the response that submitResponse
\* accepted for p while the wait was polling and before its deadline; so a
\* wait never throws the timeout error while the document holds such a
\* response for it.
C9_AcceptedBeforeDeadlineIsReturned ==
    \A w \in Procs :
        (op[w].kind = "wait" /\ history[w].owed)
        => ~(pc[w] = "threw" /\ result[w].error = ErrTimedOut)

\* C10: a poll of waitForResponse(p) that finds no response for p returns
\* nothing and writes back the prompts and responses it read, and the wait
\* throws the timeout error only once its deadline has passed.
C10_TimeoutChangesNothing ==
    /\ \A w \in Mutated("wait") :
          op[w].promptId \notin RespondedIdsOf(readBridgeState(before[w]).responses)
          => /\ result[w] = Returned
             /\ state[w] = readBridgeState(before[w])
             /\ pc[w] = "rm" => Document = readBridgeState(before[w])
    /\ \A w \in Procs :
          (pc[w] = "threw" /\ result[w].error = ErrTimedOut)
          => /\ op[w].kind = "wait"
             /\ waitLeft[w] < 0
             /\ result[w] = Threw(ErrTimedOut)

\* C10 witness: a wait for a pending prompt timed out, and a later wait for
\* the same prompt has taken a response submitted after the timeout.
C10_Witness ==
    \E w1 \in Procs, w2 \in Mutated("wait") :
        /\ pc[w1] = "threw"
        /\ result[w1].error = ErrTimedOut
        /\ history[w1].pendingAtTimeout
        /\ op[w2].promptId = op[w1].promptId
        /\ pc[w2] = "rm"
        /\ result[w2].response # <<>>

\* Where a prompt id is in document s.
StatusOf(s, id) ==
    IF id \notin PromptIdsOf(s.prompts) THEN "absent"
    ELSE IF id \in RespondedIdsOf(s.responses) THEN "answered"
    ELSE "pending"

\* The process whose rename is this step.
Renaming(p) == pc[p] = "rename" /\ pc'[p] = "rm"

\* C11: in the document at the bridge path a prompt id changes status only
\* from absent to pending, by the write of an enqueue of that id; from
\* pending to answered, by the write of an accepted submitResponse for it;
\* and from answered to absent, by the write of a waitForResponse for it
\* that took its response.  No step removes a pending prompt or makes an
\* answered prompt pending.
C11_PromptLifecycle ==
    [][\A id \in PromptIds :
         LET was == StatusOf(readBridgeState(file), id)
             is == StatusOf(readBridgeState(file'), id)
         IN  was # is =>
               \E p \in Procs :
                  /\ Renaming(p)
                  /\ \/ /\ was = "absent" /\ is = "pending"
                        /\ op[p].kind = "enqueue" /\ op[p].prompt.id = id
                     \/ /\ was = "pending" /\ is = "answered"
                        /\ op[p].kind = "submit" /\ op[p].response.promptId = id
                        /\ result[p].accepted
                     \/ /\ was = "answered" /\ is = "absent"
                        /\ op[p].kind = "wait" /\ op[p].promptId = id
                        /\ result[p].response # <<>>]_vars

\* C11 witness: a wait has just removed an answered prompt beside a
\* pending one, which stays.
C11_Witness ==
    \E w \in Mutated("wait") :
        /\ pc[w] = "rm"
        /\ StatusOf(readBridgeState(before[w]), op[w].promptId) = "answered"
        /\ StatusOf(Document, op[w].promptId) = "absent"
        /\ \E id \in PromptIds : /\ StatusOf(readBridgeState(before[w]), id) = "pending"
                                 /\ StatusOf(Document, id) = "pending"

\* C12 (as amended), under DocSpec: a prompt id whose response a wait has
\* consumed comes back into the document only by an enqueue of that id,
\* and that enqueue returns without error: the bridge keeps no record of
\* removed ids, so an id stays unused only while no caller enqueues it again.
C12_RemovedIdReturnsOnlyByEnqueue ==
    [][\A id \in removed :
         (/\ id \notin PromptIdsOf(readBridgeState(file).prompts)
          /\ id \in PromptIdsOf(readBridgeState(file').prompts))
         => /\ done'.op.kind = "enqueue"
            /\ done'.op.prompt.id = id
            /\ done'.result = Returned]_vars

\* C12 witness: an enqueue has put a removed id back, and it is pending.
C12_Witness ==
    \E id \in removed :
        /\ done.op.kind = "enqueue" /\ done.op.prompt.id = id
        /\ StatusOf(Document, id) = "pending"

\* C12 (as stated): a prompt id whose response a wait has consumed is never
\* in the document again.
C12_RemovedIdNeverReturns ==
    \A id \in removed : id \notin PromptIdsOf(Document.prompts)

\* How many prompts of s have this id.
CountOf(s, id) == Cardinality({i \in DOMAIN s.prompts : s.prompts[i].id = id})

\* C13: an enqueue of an id that is already in the document, pending or
\* answered, returns without error, and the document it leaves holds
\* exactly one prompt with that id and the pending ids it held before.
C13_ReEnqueueSucceeds ==
    \A p \in Mutated("enqueue") :
        LET read == readBridgeState(before[p])
        IN  op[p].prompt.id \in PromptIdsOf(read.prompts)
            => /\ result[p] = Returned
               /\ CountOf(state[p], op[p].prompt.id) = 1
               /\ PendingIds(state[p]) = PendingIds(read)

\* An enqueue of the id that is pending has returned and written the
\* document back as it was.
C13_Witness ==
    \E p \in Mutated("enqueue") :
        /\ pc[p] = "rm"
        /\ op[p].prompt.id \in PendingIds(readBridgeState(before[p]))
        /\ result[p] = Returned
        /\ Document = readBridgeState(before[p])

\* The processes between mkdir(lockPath) and rm(lockPath).
Inside == {p \in Procs : pc[p] \in {"read", "write", "rename", "rm"}}

\* C14: at most one process is between creating the lock directory and
\* removing it, and the directory exists exactly while one is; every read
\* and write of the document is made by that process; the file still is
\* what that process read until its own rename, and after the rename it is
\* what the process computed from what it read: no update is lost.
C14_MutualExclusion ==
    /\ Cardinality(Inside) <= 1
    /\ lockDir <=> Inside # {}
    /\ tmpFile # Missing => \E p \in Inside : pc[p] = "rename" /\ tmpFile = Stringify(state[p])
    /\ \A p \in Inside :
          /\ pc[p] \in {"write", "rename"} => file = before[p]
          /\ pc[p] = "rm" =>
                file = IF result[p].status = "throw" THEN before[p]
                       ELSE Stringify(Mutator(op[p], readBridgeState(before[p])).state)

\* C14 witness: one process is about to rename its document while the other
\* waits at mkdir for the lock.
C14_Witness ==
    \E p \in Inside, q \in Procs :
        /\ pc[p] = "rename" /\ tmpFile # file
        /\ pc[q] = "mkdir" /\ op[q].kind \in {"enqueue", "submit"}

\* The calls that gave up on the lock.
LockTimedOut == {p \in Procs : pc[p] = "threw" /\ result[p].error = ErrLock}

\* C15: a call whose mkdir(lockPath) fails goes round the retry loop while
\* the lock deadline has not passed and, at the first failure with the
\* deadline passed, can only throw the mkdir error; a call that threw it
\* has read nothing and written nothing, and its only step is to hand the
\* error to its caller.
C15_LockTimeoutFails ==
    /\ \A p \in Procs :
          (pc[p] = "mkdir" /\ lockDir) =>
             IF lockLeft[p] > 0
             THEN ENABLED MkdirRetry(p) /\ ~ENABLED MkdirTimeout(p) /\ ENABLED Tick
             ELSE ~ENABLED MkdirRetry(p) /\ ENABLED MkdirTimeout(p)
    /\ \A p \in LockTimedOut :
          /\ lockLeft[p] <= 0
          /\ result[p] = Threw(ErrLock)
          /\ before[p] = Missing /\ state[p] = emptyState
          /\ ENABLED Rethrown(p)
          /\ ~ENABLED Mkdir(p) /\ ~ENABLED MkdirRetry(p) /\ ~ENABLED WaitPoll(p)

\* C15 witness: a submitResponse gave up on the lock while the other
\* process is still inside its section, about to rename.
C15_Witness ==
    \E p \in LockTimedOut, q \in Inside :
        op[p].kind = "submit" /\ pc[q] = "rename"

(***************************************************************************)
(* Properties of the document under whole operations, checked under        *)
(* HealSpec.                                                               *)
(***************************************************************************)
\* What JSON.parse and the version test of readBridgeState accept.
Readable(f) == f.kind = "json" /\ f.version = 1

\* C18: an operation that found the file missing, unparsable or of a
\* version other than 1 did not throw, returned what it returns on the
\* empty document, and left as the file the version-1 document it makes of
\* the empty document.
C18_UnreadableIsEmpty ==
    (done.op # NoOp /\ ~Readable(done.before)) =>
        LET out == Mutator(done.op, emptyState)
        IN  /\ done.result = out.result
            /\ done.result.status = "return"
            /\ file = Stringify(out.state)
            /\ Readable(file)

\* C18 witness: an enqueue found a version-2 document with a prompt in it
\* and stored its own prompt in a fresh version-1 document.
C18_Witness ==
    /\ done.before = OtherVersion
    /\ done.op.kind = "enqueue" /\ done.result = Returned
    /\ Readable(file) /\ PromptIdsOf(file.prompts) = {done.op.prompt.id}

(***************************************************************************)
(* Properties of listPending, checked under ListSpec.                      *)
(***************************************************************************)
\* C19: the list listPending returned holds each prompt of the document it
\* read that has no response, once, and nothing else (so no answered
\* prompt), with createdAt never decreasing along the list.
C19_ListPendingIsUnansweredSorted ==
    done.op.kind = "list" =>
        LET doc == readBridgeState(done.before)
            out == done.result.pending
            unanswered == {i \in DOMAIN doc.prompts :
                              \A k \in DOMAIN doc.responses :
                                 doc.responses[k].promptId # doc.prompts[i].id}
        IN  /\ done.result.status = "return"
            /\ Len(out) = Cardinality(unanswered)
            /\ \A i \in unanswered : \E k \in DOMAIN out : out[k] = doc.prompts[i]
            /\ \A k \in DOMAIN out : \E i \in unanswered : out[k] = doc.prompts[i]
            /\ \A k, l \in DOMAIN out : k < l => out[k].createdAt <= out[l].createdAt

\* C19 witness: the document read holds an answered prompt and two
\* unanswered ones, the later one stored first; the list has the two, the
\* earlier one first.
C19_Witness ==
    /\ done.op.kind = "list"
    /\ Len(done.before.prompts) = 3 /\ Len(done.before.responses) = 1
    /\ Len(done.result.pending) = 2
    /\ \E i, j \in DOMAIN done.before.prompts :
          /\ i < j
          /\ done.before.prompts[i].createdAt > done.before.prompts[j].createdAt
          /\ done.result.pending = <<done.before.prompts[j], done.before.prompts[i]>>

(***************************************************************************)
(* Properties of the prompt bridge with crashes, checked under CrashSpec.  *)
(***************************************************************************)
\* C16: when a process dies inside withStateLock the lock directory stays,
\* and while it stays no step of a bridge process removes it or gets past
\* mkdir(lockPath): a call at mkdir (an enqueue, a listPending, a
\* submitResponse or a poll of a waitForResponse) leaves it only after its
\* lock deadline, with the mkdir error and the file untouched.  The
\* directory goes away only by the removal from outside.
C16_CrashedLockStaysHeld ==
    [][/\ \A p \in Procs : (pc[p] \in Section /\ pc'[p] = "crashed") => lockDir'
       /\ Crashed # {} =>
            /\ lockDir
            /\ \A q \in Procs : pc[q] \notin Section /\ pc'[q] \notin Section
            /\ lockDir' \/ \A p \in Crashed : pc'[p] = "gone"
            /\ lockDir' => Crashed' = Crashed
            /\ \A q \in Procs :
                  (pc[q] = "mkdir" /\ pc'[q] # "mkdir") =>
                     /\ lockLeft[q] <= 0
                     /\ pc'[q] = "threw"
                     /\ result'[q] = Threw(ErrLock)
                     /\ file' = file /\ tmpFile' = tmpFile]_vars

\* C16 witness: one process died holding the lock and a poll of the other
\* process's waitForResponse gave up on the lock.
C16_Witness ==
    /\ Crashed # {} /\ lockDir
    /\ \E q \in LockTimedOut : op[q].kind = "wait"

\* The document a running withStateLock leaves at filePath when it stops
\* where it is: the one it read until its rename, its own after.
OldOrNew(p) ==
    IF pc[p] = "rm" /\ result[p].status # "throw" THEN Stringify(state[p]) ELSE before[p]

\* C17: the file is never a partial document.  While a withStateLock is
\* past its read the file is the document it read (until its rename) or
\* the document it made (after); the file changes only in a rename, to the
\* complete document of the call that renames; a crash at any step, and the
\* removal of the lock after it, leave the file as it is, so what is lost
\* is the crashed call's own mutation and nothing else.
C17_FileIsOldOrNew ==
    /\ [](/\ file.kind # Partial.kind
          /\ \A p \in Procs : pc[p] \in {"write", "rename", "rm"} => file = OldOrNew(p))
    /\ [][/\ file' # file =>
               \E p \in Procs : /\ pc[p] = "rename" /\ pc'[p] = "rm"
                                /\ file = before[p]
                                /\ file' = Stringify(state[p])
          /\ \A p \in Procs :
                (pc'[p] # pc[p] /\ pc'[p] \in {"crashed", "gone"}) =>
                   /\ file' = file
                   /\ pc[p] \in {"write", "rename", "rm"} => file' = OldOrNew(p)]_vars

\* C17 witness: a process died in the middle of writeFile(tempPath), after
\* an earlier call had stored a prompt: the temp file is partial, the file
\* is the complete earlier document.
C17_Witness ==
    /\ Crashed # {}
    /\ tmpFile = Partial
    /\ file.kind = "json" /\ Len(file.prompts) > 0

(***************************************************************************)
(* Properties of the approval gate, checked under GateSpec.                *)
(***************************************************************************)
\* The calls that have entered executeWithApproval.
Entered == {c \in Calls : gpc[c] # "idle"}
\* The entered calls whose policy match requires approval, and the others.
Gated == {c \in Entered : matchPolicy(optsPolicy, call[c].toolName).requireApproval}
Bypassed == Entered \ Gated

\* C2: a call whose policy match requires approval has its executor invoked
\* only after the adapter resolved, for the one request this call gave it
\* (the request with the call's traceId), with an approve decision; while
\* the call is suspended awaiting the decision the executor has not been
\* invoked.
C2_ExecutorOnlyAfterApprove ==
    \A c \in Gated :
        /\ gpc[c] = "awaiting" => executed[c] = <<>> /\ decision[c] = NoDecision
        /\ executed[c] # <<>> =>
              /\ decision[c].shape = "object" /\ decision[c].decision = "approve"
              /\ asked[c] = <<request[c]>>
              /\ \E i \in DOMAIN events[c] :
                    /\ events[c][i].event = "mcp_approval_approved"
                    /\ events[c][i].traceId = asked[c][1].traceId

\* A gated call's executor is running after an approve, while the other
\* call is still suspended.
C2_Witness ==
    \E c \in Gated, other \in Gated :
        /\ gpc[c] = "executing" /\ Len(executed[c]) = 1
        /\ gpc[other] = "awaiting"

\* C3: after a deny decision the executor has not been invoked and
\* executeWithApproval has failed with a denial error whose traceId is the
\* traceId of the request given to the adapter, whose toolName is the
\* call's toolName and whose reason is the decision's reason.
C3_DenyNeverExecutes ==
    \A c \in Calls :
        (decision[c].shape = "object" /\ decision[c].decision = "deny") =>
            /\ executed[c] = <<>>
            /\ gpc[c] = "done"
            /\ Len(asked[c]) = 1
            /\ outcome[c].status = "threw"
            /\ outcome[c].error.name = "McpHumanApprovalDeniedError"
            /\ outcome[c].error.traceId = asked[c][1].traceId
            /\ outcome[c].error.toolName = call[c].toolName
            /\ outcome[c].error.reason = decision[c].reason

\* A call was denied with a reason.
C3_Witness ==
    \E c \in Calls :
        /\ decision[c].decision = "deny" /\ decision[c].reason # <<>>
        /\ outcome[c].status = "threw"

\* The args the executor is promised after an approve: overrideArgs when
\* the decision has one (a value other than undefined), else the call's.
PromisedArgs(d, cl) ==
    IF d.overrideArgs # <<>> /\ d.overrideArgs[1] # Undefined
    THEN d.overrideArgs[1] ELSE cl.args

\* C4: after an approve decision the executor has been invoked exactly
\* once, with the decision's overrideArgs when it has one and with the
\* call's original args otherwise, and executeWithApproval settles as the
\* executor did.
C4_ApproveExecutesWithOverride ==
    \A c \in Calls :
        (decision[c].shape = "object" /\ decision[c].decision = "approve") =>
            /\ Len(executed[c]) = 1
            /\ executed[c][1].args = PromisedArgs(decision[c], call[c])
            /\ gpc[c] = "done" => outcome[c] = settled[c]

\* An approve decision carrying an override other than the original args
\* was followed by the executor's return.
C4_Witness ==
    \E c \in Calls :
        /\ decision[c].decision = "approve"
        /\ decision[c].overrideArgs # <<>>
        /\ decision[c].overrideArgs[1] \notin {call[c].args, Undefined}
        /\ outcome[c].status = "returned"

\* C5: a call whose policy match does not require approval has its executor
\* invoked exactly once, with the original call; the adapter is never
\* called for it, no request is built, no traceId is allocated and no
\* event is emitted.
C5_BypassCallsExecutorOnly ==
    /\ \A c \in Bypassed :
          /\ executed[c] = <<call[c]>>
          /\ asked[c] = <<>>
          /\ request[c] = NoRequest
          /\ decision[c] = NoDecision
          /\ events[c] = <<>>
    /\ Len(uuids) = Cardinality(Gated)

\* A bypassed call has returned beside a gated call.
C5_Witness ==
    \E c \in Bypassed : outcome[c].status = "returned" /\ Gated # {}

\* C20: when the adapter resolved with something that is not a decision
\* tagged approve or deny (another tag, no tag, no object at all),
\* executeWithApproval has failed with the invalid-decision error, the
\* executor has not been invoked, and neither the denied nor the approved
\* event has been logged.
C20_OtherDecisionIsInvalidDecision ==
    \A c \in Calls :
        decision[c] \in OtherDecisions =>
            /\ gpc[c] = "done"
            /\ outcome[c] = Rejected(McpHumanApprovalInvalidDecisionError)
            /\ executed[c] = <<>>
            /\ \A i \in DOMAIN events[c] :
                  events[c][i].event \notin {"mcp_approval_denied", "mcp_approval_approved"}

\* C20 witness: the adapter resolved with null and executeWithApproval
\* failed with a TypeError, the executor not invoked.
C20_Witness ==
    \E c \in Calls :
        /\ decision[c].shape = "null"
        /\ gpc[c] = "done" /\ outcome[c] = Rejected(TypeError)
        /\ executed[c] = <<>>

\* The names of the events a call gave to the logger, in order.
EventNames(c) == [i \in DOMAIN events[c] |-> events[c][i].event]

\* C21: a call on the approval-required path logs mcp_approval_requested
\* first and once, before it calls the adapter; after an approve decision
\* it logs mcp_approval_approved and then invokes the executor, after a deny
\* decision it logs mcp_approval_denied and then throws; it logs nothing
\* else, and each event has the traceId of the call's request and the
\* call's toolName.
C21_EventsInOrder ==
    \A c \in Gated :
        LET approved == decision[c].shape = "object" /\ decision[c].decision = "approve"
            denied == decision[c].shape = "object" /\ decision[c].decision = "deny"
            ended == IF gpc[c] = "done"
                     THEN <<IF outcome[c].status = "returned" THEN "return" ELSE "throw">>
                     ELSE <<>>
        IN  /\ \A i \in DOMAIN events[c] :
                  /\ events[c][i].traceId = request[c].traceId
                  /\ events[c][i].toolName = call[c].toolName
            /\ Len(asked[c]) = 1 /\ asked[c][1] = request[c]
            /\ IF approved
               THEN /\ EventNames(c) = <<"mcp_approval_requested", "mcp_approval_approved">>
                    /\ effects[c] =
                         <<"logger", "requestApproval", "logger", "executor">> \o ended
               ELSE IF denied
               THEN /\ EventNames(c) = <<"mcp_approval_requested", "mcp_approval_denied">>
                    /\ effects[c] = <<"logger", "requestApproval", "logger", "throw">>
               ELSE /\ EventNames(c) = <<"mcp_approval_requested">>
                    /\ effects[c] = <<"logger", "requestApproval">> \o ended

\* C21 witness: one call was approved and its executor returned, the other
\* was denied.
C21_Witness ==
    \E c, d \in Gated :
        /\ decision[c].decision = "approve" /\ outcome[c].status = "returned"
        /\ decision[d].decision = "deny" /\ gpc[d] = "done"

\* C22: when the executor failed, on the bypass path or after an approve,
\* executeWithApproval has failed with the executor's own error; and
\* executeWithApproval has failed with a denial error only after a deny
\* decision, the executor never invoked.
C22_ExecutorFailurePassesThrough ==
    \A c \in Calls :
        /\ settled[c].status = "threw" =>
              /\ gpc[c] = "done"
              /\ outcome[c] = settled[c]
              /\ outcome[c].error = ExecutorError
        /\ (outcome[c].status = "threw"
            /\ outcome[c].error.name = "McpHumanApprovalDeniedError") =>
              /\ decision[c].shape = "object" /\ decision[c].decision = "deny"
              /\ executed[c] = <<>> /\ settled[c] = NoOutcome

\* C22 witness: the executor failed for a call on the bypass path and for
\* an approved call.
C22_Witness ==
    \E c \in Bypassed, d \in Gated :
        /\ outcome[c] = Rejected(ExecutorError)
        /\ decision[d].decision = "approve" /\ outcome[d] = Rejected(ExecutorError)

\* Everything the model keeps for one call.
OfCall(c) ==
    <<gpc[c], call[c], request[c], decision[c], executed[c], outcome[c], asked[c],
      events[c], settled[c], effects[c]>>

\* C23: a step of one call changes nothing of the other call; while a call
\* is suspended at its adapter the other call can take each of its own
\* steps; and what a call gave the adapter, what it invoked the executor
\* with and how it settled are given by its own call, its own request and
\* its own decision.
C23_CallsAreIndependent ==
    /\ [](\A c \in Calls :
            /\ (c \in Gated /\ gpc[c] = "awaiting") =>
                  \A d \in Calls \ {c} :
                     /\ gpc[d] = "idle" => ENABLED (InvokeBypass(d) \/ InvokeGated(d))
                     /\ gpc[d] = "awaiting" => ENABLED Approved(d) /\ ENABLED Denied(d)
                     /\ gpc[d] = "executing" =>
                           ENABLED ExecutorReturns(d) /\ ENABLED ExecutorThrows(d)
            /\ c \in Gated =>
                  /\ request[c].toolName = call[c].toolName
                  /\ request[c].displayArgs =
                        prepareArgsForDisplay(
                            call[c].args, matchPolicy(optsPolicy, call[c].toolName).argDisplay)
                  /\ executed[c] \in
                        {<<>>, <<[call[c] EXCEPT !.args = ExecutedArgs(decision[c], call[c])]>>}
                  /\ outcome[c] \in
                        {NoOutcome, settled[c], Rejected(AdapterError),
                         Rejected([NoError EXCEPT !.name = assertValidDecision(decision[c])]),
                         Rejected(McpHumanApprovalDeniedError(
                                      request[c].traceId, call[c].toolName,
                                      decision[c].reason))}
            /\ c \in Bypassed =>
                  /\ executed[c] = <<call[c]>>
                  /\ outcome[c] \in {NoOutcome, settled[c]})
    /\ [][\E c \in Calls : \A d \in Calls \ {c} : OfCall(d)' = OfCall(d)]_vars

\* C23 witness: a call is still suspended at its adapter while a call that
\* asked for approval after it was denied and is over.
C23_Witness ==
    \E c, d \in Gated :
        /\ gpc[c] = "awaiting"
        /\ request[d].traceId > request[c].traceId
        /\ gpc[d] = "done" /\ decision[d].decision = "deny"

HasMatched == matched.match # <<>>

\* The index of the first rule of the policy naming the tool, 0 if none does.
FirstRuleIndex(policy, toolName) ==
    IF \E i \in DOMAIN policy.tools : policy.tools[i].toolName = toolName
    THEN CHOOSE i \in DOMAIN policy.tools :
            /\ policy.tools[i].toolName = toolName
            /\ \A j \in 1..(i - 1) : policy.tools[j].toolName # toolName
    ELSE 0

\* C25: for a tool in the allowlist matchPolicy returned requireApproval
\* false, risk low and the default display options, whatever the denylist
\* and the per-tool rules say.
C25_AllowlistBypasses ==
    (HasMatched /\ matched.toolName \in optsPolicy.allowlist) =>
        matched.match[1] = [requireApproval |-> FALSE, risk |-> "low",
                            argDisplay |-> defaultArgDisplayOptions]

\* C25 witness: the tool matched is in the allowlist and in the denylist and
\* the first rule naming it requires approval, with high risk and display
\* options of its own.
C25_Witness ==
    /\ HasMatched
    /\ matched.toolName \in optsPolicy.allowlist \cap optsPolicy.denylist
    /\ optsPolicy.defaultRequireApproval
    /\ FirstRuleIndex(optsPolicy, matched.toolName) = 1
    /\ optsPolicy.tools[1].requireApproval = "true" /\ optsPolicy.tools[1].risk = "high"
    /\ optsPolicy.tools[1].argDisplay.fields # {}

\* C26: for a tool in the denylist and not in the allowlist matchPolicy
\* returned requireApproval true, risk high and the default display
\* options, whatever defaultRequireApproval and the per-tool rules say.
C26_DenylistForcesApproval ==
    (HasMatched /\ matched.toolName \in optsPolicy.denylist \ optsPolicy.allowlist) =>
        matched.match[1] = [requireApproval |-> TRUE, risk |-> "high",
                            argDisplay |-> defaultArgDisplayOptions]

\* C26 witness: the tool matched is in the denylist only, the default is
\* not to ask, and the first rule naming it says not to ask and changes the
\* display options.
C26_Witness ==
    /\ HasMatched
    /\ matched.toolName \in optsPolicy.denylist \ optsPolicy.allowlist
    /\ ~optsPolicy.defaultRequireApproval
    /\ FirstRuleIndex(optsPolicy, matched.toolName) = 1
    /\ optsPolicy.tools[1].requireApproval = "false"
    /\ optsPolicy.tools[1].argDisplay.fields # {}

\* C27: for a tool in neither list, requireApproval is that of the first
\* rule naming the tool when this rule sets it and defaultRequireApproval
\* otherwise, and risk is that rule's risk when it sets one, else medium
\* when requireApproval is true and low when it is false.
C27_FirstRuleThenDefault ==
    (HasMatched /\ matched.toolName \notin optsPolicy.allowlist \cup optsPolicy.denylist) =>
        LET i == FirstRuleIndex(optsPolicy, matched.toolName)
            m == matched.match[1]
        IN  /\ m.requireApproval =
                  IF i # 0 /\ optsPolicy.tools[i].requireApproval # "unset"
                  THEN optsPolicy.tools[i].requireApproval = "true"
                  ELSE optsPolicy.defaultRequireApproval
            /\ m.risk =
                  IF i # 0 /\ optsPolicy.tools[i].risk # "unset"
                  THEN optsPolicy.tools[i].risk
                  ELSE IF m.requireApproval THEN "medium" ELSE "low"

\* C27 witness: two rules name the tool matched; the first sets neither
\* requireApproval nor risk, the second sets both, the default is to ask:
\* the match asks, with medium risk.
C27_Witness ==
    /\ HasMatched
    /\ matched.toolName \notin optsPolicy.allowlist \cup optsPolicy.denylist
    /\ Len(optsPolicy.tools) = 2
    /\ \A i \in 1..2 : optsPolicy.tools[i].toolName = matched.toolName
    /\ optsPolicy.tools[1].requireApproval = "unset" /\ optsPolicy.tools[1].risk = "unset"
    /\ optsPolicy.tools[2].requireApproval = "false" /\ optsPolicy.tools[2].risk = "high"
    /\ optsPolicy.defaultRequireApproval
    /\ matched.match[1].requireApproval /\ matched.match[1].risk = "medium"

\* C28: for a tool in neither list that a per-tool rule names, each limit
\* of the display options is the number the rule gives for it, or the
\* default when the rule gives none, and the redaction rules are the rule's
\* list when it gives one (the default rules not among them) and the
\* default list otherwise.
C28_RuleOverridesDisplayOptions ==
    (/\ HasMatched
     /\ matched.toolName \notin optsPolicy.allowlist \cup optsPolicy.denylist
     /\ FirstRuleIndex(optsPolicy, matched.toolName) # 0) =>
        LET given == optsPolicy.tools[FirstRuleIndex(optsPolicy, matched.toolName)].argDisplay
            gives == given.fields \ given.undef
            d == defaultArgDisplayOptions
        IN  matched.match[1].argDisplay =
               [maxDepth |-> IF "maxDepth" \in gives THEN given.maxDepth ELSE d.maxDepth,
                maxStringLen |-> IF "maxStringLen" \in gives
                                 THEN given.maxStringLen ELSE d.maxStringLen,
                maxArrayLen |-> IF "maxArrayLen" \in gives
                                THEN given.maxArrayLen ELSE d.maxArrayLen,
                maxObjectKeys |-> IF "maxObjectKeys" \in gives
                                  THEN given.maxObjectKeys ELSE d.maxObjectKeys,
                rules |-> IF "rules" \in gives THEN given.rules ELSE d.rules,
                undef |-> {}]

\* C28 witness: the rule naming the tool has a maxDepth property whose
\* value is undefined, and the display options matchPolicy returned have no
\* maxDepth.
C28_Witness ==
    /\ HasMatched
    /\ matched.toolName \notin optsPolicy.allowlist \cup optsPolicy.denylist
    /\ FirstRuleIndex(optsPolicy, matched.toolName) = 1
    /\ "maxDepth" \in optsPolicy.tools[1].argDisplay.undef
    /\ matched.match[1].argDisplay.undef = {"maxDepth"}
    /\ matched.match[1].argDisplay.rules = defaultArgDisplayOptions.rules

(***************************************************************************)
(* Properties of prepareArgsForDisplay, checked under DisplaySpec.         *)
(***************************************************************************)
\* prepareArgsForDisplay has been evaluated.
HasShown == shown.output # <<>>

\* The keys the rules redact, and what the first rule naming key puts in
\* its place.
RedactedKeys(rules) == {rules[i].key : i \in {j \in DOMAIN rules : rules[j].kind = "redactKey"}}

ReplacementFor(key, rules) ==
    LET i == CHOOSE i \in DOMAIN rules :
                 /\ rules[i].kind = "redactKey" /\ rules[i].key = key
                 /\ \A j \in 1..(i - 1) : ~(rules[j].kind = "redactKey" /\ rules[j].key = key)
    IN  Str(IF rules[i].replacement = <<>> THEN DEFAULT_REPLACEMENT ELSE rules[i].replacement)

\* Every value under a redacted key, at any level of v, is the replacement.
RECURSIVE AllRedacted(_, _)
AllRedacted(v, rules) ==
    CASE v.t = "arr" -> \A i \in DOMAIN v.items : AllRedacted(v.items[i], rules)
      [] v.t = "obj" ->
           \A i \in DOMAIN v.keys :
              IF v.keys[i] \in RedactedKeys(rules)
              THEN v.items[i] = ReplacementFor(v.keys[i], rules)
              ELSE AllRedacted(v.items[i], rules)
      [] OTHER -> TRUE

\* v with every value under a redacted key, at any level, replaced by null.
RECURSIVE Scrub(_, _)
Scrub(v, rules) ==
    CASE v.t = "arr" -> Arr([i \in DOMAIN v.items |-> Scrub(v.items[i], rules)])
      [] v.t = "obj" ->
           Obj(v.keys, [i \in DOMAIN v.keys |->
                          IF v.keys[i] \in RedactedKeys(rules) THEN Null
                          ELSE Scrub(v.items[i], rules)])
      [] OTHER -> v

DepthMarker == Str(<<"[TRUNCATED_DEPTH]">>)
ArrayMarker == Str(<<"[TRUNCATED_ARRAY]">>)
ObjectFlagKey == "__truncated__"

\* out is value cut at the limits of opts and nowhere else, value being
\* depth containers down: the depth marker stands for anything deeper than
\* maxDepth; an array or object within its limit has its elements or keys
\* and nothing more; a longer one has the first maxArrayLen elements and
\* then the array marker, or the first maxObjectKeys keys and then the
\* flag.  What stands under a redacted key is left to C29.
RECURSIVE CutAtLimits(_, _, _, _)
CutAtLimits(value, out, opts, depth) ==
    IF depth > opts.maxDepth THEN out = DepthMarker
    ELSE
      /\ out # DepthMarker
      /\ CASE value.t = "str" ->
                /\ out.t = "str"
                /\ IF Len(value.s) <= opts.maxStringLen THEN out.s = value.s
                   ELSE /\ Len(out.s) = opts.maxStringLen + 1
                        /\ SubSeq(out.s, 1, opts.maxStringLen) =
                              SubSeq(value.s, 1, opts.maxStringLen)
           [] value.t = "arr" ->
                /\ out.t = "arr"
                /\ IF Len(value.items) <= opts.maxArrayLen
                   THEN Len(out.items) = Len(value.items)
                   ELSE /\ Len(out.items) = opts.maxArrayLen + 1
                        /\ out.items[opts.maxArrayLen + 1] = ArrayMarker
                /\ \A i \in 1..Len(value.items) :
                      i <= opts.maxArrayLen =>
                         CutAtLimits(value.items[i], out.items[i], opts, depth + 1)
           [] value.t = "obj" ->
                /\ out.t = "obj"
                /\ Len(out.items) = Len(out.keys)
                /\ IF Len(value.keys) <= opts.maxObjectKeys
                   THEN out.keys = value.keys
                   ELSE /\ out.keys = Append(SubSeq(value.keys, 1, opts.maxObjectKeys),
                                             ObjectFlagKey)
                        /\ out.items[opts.maxObjectKeys + 1] = Bool("true")
                /\ \A i \in 1..Len(value.keys) :
                      (i <= opts.maxObjectKeys
                         /\ value.keys[i] \notin RedactedKeys(opts.rules)) =>
                         CutAtLimits(value.items[i], out.items[i], opts, depth + 1)
           [] OTHER -> out \notin {ArrayMarker}

RECURSIVE Nesting(_)
Nesting(v) ==
    IF v.t \notin {"arr", "obj"} THEN 0
    ELSE LET hs == {0} \cup {Nesting(v.items[i]) : i \in DOMAIN v.items}
         IN  1 + CHOOSE h \in hs : \A g \in hs : g <= h

C32_ToolAlwaysReturns ==
    /\ [](\A p \in ToolProcs :
             tool[p].phase = "done" =>
                /\ tool[p].ret.action \in {"cancel", "accept", "decline"}
                /\ tool[p].ret.answer # "null" => tool[p].ret.action = "accept")
    /\ [][\A p \in ToolProcs :
             (tool[p].phase # "done" /\ tool'[p].phase = "done") =>
                IF result[p].status = "throw" \/ tool[p].phase = "enqueue"
                THEN result[p].status = "throw" /\ tool'[p].ret = CancelReturn
                ELSE /\ tool[p].phase = "wait" /\ result[p].response # <<>>
                     /\ result[p].response[1].promptId = tool[p].promptId
                     /\ tool'[p].ret.action = result[p].response[1].action
                     /\ FindResponseIndex(readBridgeState(file).responses,
                                          tool[p].promptId) = 0]_vars

\* C32 witness: the tool has returned accept for a response its wait took.
C32_Witness ==
    \E p \in ToolProcs :
       /\ tool[p].phase = "done"
       /\ tool[p].ret = [action |-> "accept", answer |-> "response.answer ?? null"]

(***************************************************************************)
(* Further properties of the prompt bridge, checked under Spec.            *)
(***************************************************************************)
\* The document's prompt ids are pairwise distinct, so are its responses'
\* promptIds, and every response belongs to a prompt of the document.
WellFormed(s) ==
    /\ \A i, j \in DOMAIN s.prompts : s.prompts[i].id = s.prompts[j].id => i = j
    /\ \A i, j \in DOMAIN s.responses :
          s.responses[i].promptId = s.responses[j].promptId => i = j
    /\ RespondedIdsOf(s.responses) \subseteq PromptIdsOf(s.prompts)

\* C33: every document the bridge's operations leave at the path, starting
\* from no file or the empty document, has pairwise distinct prompt ids,
\* pairwise distinct response promptIds, and no response without its prompt.
C33_DocumentWellFormed == WellFormed(readBridgeState(file))

\* C33 witness: the document holds two prompts, one of them with a response.
C33_Witness ==
    /\ Len(readBridgeState(file).prompts) = 2
    /\ Len(readBridgeState(file).responses) = 1
    /\ \A p \in Procs : pc[p] = "idle"

\* p is in a waitForResponse call for id whose take has found a response.
HoldsResponse(p, id) ==
    op[p].kind = "wait" /\ op[p].promptId = id /\ result[p].response # <<>>

\* C34: of the waitForResponse calls polling for one prompt id, at most one
\* is given a submitted response: the take that finds it runs alone in the
\* critical section and its write leaves no response for the id, so no
\* other wait finds it; a wait that ends without a response ends by
\* throwing, after its deadline or after the lock's.
C34_ResponseDeliveredOnce ==
    /\ [](\A p, q \in Procs, id \in PromptIds :
             (HoldsResponse(p, id) /\ HoldsResponse(q, id)) => p = q)
    /\ [][\A p \in Procs :
             /\ (HoldsResponse(p, op[p].promptId) /\ pc[p] = "rename" /\ pc'[p] = "rm") =>
                   FindResponseIndex(readBridgeState(file').responses, op[p].promptId) = 0
             /\ (op[p].kind = "wait" /\ pc'[p] = "idle" /\ pc[p] # "idle"
                   /\ result[p].response = <<>>) =>
                   /\ result[p].status = "throw"
                   /\ result[p].error \in {ErrTimedOut, ErrLock}]_vars

\* C34 witness: both processes waited for p1; one has taken the response
\* and is about to return it, the other has run into its deadline.
C34_Witness ==
    \E p, q \in Procs :
       /\ p # q
       /\ HoldsResponse(p, "p1") /\ pc[p] = "rm"
       /\ op[q].kind = "wait" /\ op[q].promptId = "p1"
       /\ pc[q] = "threw" /\ result[q] = Threw(ErrTimedOut)

\* The responses the document f holds for id.
ResponsesFor(f, id) ==
    SelectSeq(readBridgeState(f).responses, LAMBDA r : r.promptId = id)

\* C35: a submitResponse for a prompt whose response has not been taken yet
\* is accepted and its response takes the place of the stored one: the
\* document then holds the new response and no other for the prompt, and
\* a take returns the one response the document holds for the prompt, which
\* is the last one submitted.
C35_LastResponseWins ==
    [][\A p \in Procs :
          /\ (op[p].kind = "submit" /\ pc[p] = "read" /\ pc'[p] # "read"
                /\ ResponsesFor(file, op[p].response.promptId) # <<>>) =>
                /\ result'[p].accepted /\ pc'[p] = "write"
                /\ Len(state'[p].responses) = Len(readBridgeState(file).responses)
          /\ (op[p].kind = "submit" /\ result[p].accepted
                /\ pc[p] = "rename" /\ pc'[p] = "rm") =>
                ResponsesFor(file', op[p].response.promptId) = <<op[p].response>>
          /\ (op[p].kind = "wait" /\ pc[p] = "read" /\ result'[p].response # <<>>) =>
                result'[p].response = ResponsesFor(file, op[p].promptId)]_vars

\* C35 witness: a submit has just replaced a response of the other action
\* while the other process is in a wait for the same prompt.
C35_Witness ==
    \E p, q \in Procs :
       /\ op[p].kind = "submit" /\ pc[p] = "rm" /\ result[p].accepted
       /\ ResponsesFor(before[p], op[p].response.promptId) # <<>>
       /\ ResponsesFor(before[p], op[p].response.promptId)[1].action # op[p].response.action
       /\ ResponsesFor(file, op[p].response.promptId) = <<op[p].response>>
       /\ op[q].kind = "wait" /\ op[q].promptId = op[p].response.promptId

(***************************************************************************)
(* The responder loop, checked under RespondSpec.                          *)
(***************************************************************************)
\* The document has a prompt id without a response.
PendingInFile(id) == id \in PromptIdsOf(listPendingFromState(readBridgeState(file)))

\* The responder's loop has ended with the error of one of its calls.
ResponderStopped == \E p \in Responders : tool[p].phase = "stopped"

\* C36: with fair scheduling and a responder that keeps listing the pending
\* prompts and answering the first of them, every pending prompt is
\* answered in the end, also one whose waiter has timed out and gone: the
\* pending slot gets free for the enqueue of a new id.
C36_PendingEventuallyAnswered ==
    \/ <>[]ResponderStopped
    \/ \A id \in PromptIds : PendingInFile(id) ~> ~PendingInFile(id)

\* C36 witness: the tool's wait for p1 ended without its response, the
\* responder answered p1 afterwards, and the tool's next call has enqueued
\* p2.
C36_Witness ==
    /\ ~ResponderStopped
    /\ PromptIdsOf(readBridgeState(file).prompts) = {"p1", "p2"}
    /\ RespondedIdsOf(readBridgeState(file).responses) = {"p1"}
    /\ \E p \in ToolProcs : tool[p].promptId = "p2" /\ tool[p].phase = "enqueued"

(***************************************************************************)
(* The first poll of waitForResponse, checked under FirstPollSpec.         *)
(***************************************************************************)
\* C37: waitForResponse calls takeAskUserResponse at least once before it
\* throws its timeout error, whatever timeoutMs is.
C37_TakeBeforeTimeout ==
    [][\A p \in ToolProcs :
          (pc[p] = "check" /\ pc'[p] = "threw") => tool[p].phase = "tried"]_vars

\* C37 witness: a wait has thrown its timeout error without one take while
\* the document held a response for its prompt from before the call.
C37_Witness ==
    \E p \in ToolProcs :
       /\ pc[p] = "threw" /\ result[p] = Threw(ErrTimedOut)
       /\ tool[p].phase = "begun"
       /\ ResponsesFor(file, op[p].promptId) # <<>>
       /\ \A q \in Procs \ {p} : pc[q] = "idle"

(***************************************************************************)
(* Further properties of the gate, checked under GateSpec.                 *)
(***************************************************************************)
\* C38: when requestApproval rejects, executeWithApproval rejects with the
\* adapter's own error, the executor has not been invoked for the call, and
\* the call has logged mcp_approval_requested and nothing after it.
C38_AdapterFailurePassesThrough ==
    /\ [](\A c \in Calls :
             outcome[c] = Rejected(AdapterError) =>
                /\ executed[c] = <<>>
                /\ \A i \in DOMAIN events[c] :
                      events[c][i].event \notin {"mcp_approval_approved", "mcp_approval_denied"})
    /\ [][\A c \in Calls :
             (gpc[c] = "awaiting" /\ gpc'[c] = "done" /\ decision'[c] = NoDecision) =>
                /\ outcome'[c] = Rejected(AdapterError)
                /\ executed'[c] = <<>> /\ events'[c] = events[c]]_vars

\* C38 witness: a call has ended with the adapter's error, its one logged
\* event being the request, while the other call has been approved and
\* executed.
C38_Witness ==
    \E c, d \in Calls :
       /\ outcome[c] = Rejected(AdapterError)
       /\ Len(events[c]) = 1 /\ events[c][1].event = "mcp_approval_requested"
       /\ executed[c] = <<>>
       /\ c # d /\ executed[d] # <<>> /\ Len(events[d]) = 2

\* C39: every call the executor is given has the toolName of the call that
\* executeWithApproval was given, on the bypass path and after an approve
\* decision with or without overrideArgs.
C39_ExecutorGetsSameTool ==
    \A c \in Calls : \A i \in DOMAIN executed[c] :
       executed[c][i].toolName = call[c].toolName

\* C39 witness: one call ran its tool on the bypass path, the other after
\* an approve decision that replaced its args.
C39_Witness ==
    \E c, d \in Calls :
       /\ executed[c] # <<>> /\ events[c] = <<>>
       /\ executed[d] # <<>> /\ decision[d].decision = "approve"
       /\ decision[d].overrideArgs # <<>>
       /\ executed[d][1].args # call[d].args
       /\ executed[d][1].toolName = call[d].toolName

(***************************************************************************)
(* Further properties of withStateLock, checked under FailSpec             *)
(***************************************************************************)
\* The mutator of p threw: the error in hand is not one of writeBridgeState.
RaisedInMutator(p) ==
    pc[p] = "rm" /\ result[p].status = "throw" /\ result[p].error # ErrWrite

\* C40: a call that acquired the lock leaves withStateLock only through
\* rm(lockPath), whether it returns or raises (the mutator threw, the write
\* failed), and the lock directory is gone when it has left; a mutator that
\* threw was followed by no write: the file and the temp file are what they
\* were; a call whose mkdir failed never removes the lock directory: the
\* directory only disappears in the rm step of the call that created it.
C40_LockReleasedOnEveryExit ==
    /\ [](\A p \in Procs : RaisedInMutator(p) => file = before[p])
    /\ [][/\ \A p \in Procs :
               /\ (pc[p] \in Section /\ pc'[p] \notin Section) =>
                     pc[p] = "rm" /\ ~lockDir'
               /\ (pc[p] = "read" /\ pc'[p] = "rm") =>
                     file' = file /\ tmpFile' = tmpFile
               /\ (pc[p] = "mkdir" /\ pc'[p] = "threw") => lockDir /\ lockDir'
               /\ (pc[p] = "threw" /\ pc'[p] = "idle") => lockDir' = lockDir
          /\ (lockDir /\ ~lockDir') =>
               \E p \in Procs : pc[p] = "rm" /\ pc'[p] \notin Section]_vars

\* C40 witness: an earlier call whose rename failed has left (its temp file
\* is still there and the lock was free for the next call); the call that
\* holds the lock now raised the capacity error in its mutator; the other
\* process gave up on the lock, which is still held.
C40_Witness ==
    \E p, q \in Procs :
       /\ RaisedInMutator(p) /\ result[p] = Threw(ErrOnlyOnePending)
       /\ pc[q] = "threw" /\ result[q] = Threw(ErrLock)
       /\ lockDir
       /\ tmpFile \notin {Missing, Partial}

====
